---- MODULE Spec2Model ----
(***************************************************************************)
(* The render-target lifecycle (d2d/src/target.rs), the window object      *)
(* (win32/src/window/inner.rs): its request flags and the bridge that ties *)
(* the reference-counted object to the OS window, and the call32 library:  *)
(* the result mappings and the COM library handle; and the message loop   *)
(* of the game built on them.                                              *)
(*                                                                         *)
(* A fatal error (a Rust panic) ends the operation that raised it and      *)
(* leaves the object as the unwinding found it; the operations stay        *)
(* callable afterwards (an embedding that catches the unwinding, a test    *)
(* harness), which is what makes the Poisoned state observable.            *)
(* The methods of RenderTarget are called in any order: State answers      *)
(* every call in every state, by a transition or by a panic.               *)
(*                                                                         *)
(* The window model starts at the call of CreateWindowExW in               *)
(* WindowInner::new.  The OS calls the window procedure on the window's    *)
(* thread only; handle_message makes no call that sends a message, so a    *)
(* nested call of the window procedure comes from DefWindowProcW.          *)
(*                                                                         *)
(* The mappings (src/mappings.rs) are functions of the wrapped call's      *)
(* outcome and of the thread's last-error value; ComLibraryHandle          *)
(* (src/com.rs) is modelled per thread, its cell being thread-local.       *)
(*                                                                         *)
(* The game (game/src/game.rs) is modelled from the return of Game::new:   *)
(* Game::run, statement by statement, on a window and a render target of   *)
(* its own, with the messages the system posts to its thread.              *)
(***************************************************************************)
EXTENDS Integers, Sequences, FiniteSets, TLC

(***************************************************************************)
(* Bounds                                                                  *)
(***************************************************************************)

\* Width in bits of the generation counter.  The counter is a usize (32 or
\* 64 bits on the supported targets); the model keeps its modular arithmetic
\* at a reduced width so that an exhaustive search reaches the largest value.
UsizeBits == 2

\* Brushes the caller keeps at any one time.
MaxBrushes == 2

\* Close (paint) notifications handled between two clear_close_request
\* (clear_redraw_request) calls.
MaxPending == 2

\* Input events the keyboard state processes in one run.
MaxKeyEvents == 2

\* Window-procedure calls that are inside DefWindowProcW at one time.
MaxDepth == 2

\* Destruction notifications delivered again after the first.
MaxRepeats == 1

\* Strong references application code holds at one time.
MaxAppRefs == 2

\* Largest system error code the thread's last-error value takes.
MaxErrorCode == 2

\* Largest value a wrapped Win32 function returns.
MaxValue == 2

\* Strong references to a ComLibraryHandle held on a thread at one time.
MaxHandles == 2

\* CoInitializeEx calls made on a thread in one run.
MaxInitCalls == 2

\* Messages that may wait in the thread's message queue at one time.
MaxQueue == 2

UsizeModulus == 2 ^ UsizeBits

UsizeMax == UsizeModulus - 1

\* Device losses explored in one run: enough to pass the largest counter value.
MaxLosses == UsizeModulus + 1

(***************************************************************************)
(* Inputs and outcomes of the external collaborators                       *)
(***************************************************************************)

\* Window handles and surface sizes a RenderTarget can be constructed with.
Hwnds == {1, 2}

Sizes == {"720x640"}

Colors == {"red"}

\* D2DFactory::make_device_render_target: Ok(target) or Err.
FactoryResults == {"ok", "err"}

\* ID2D1HwndRenderTarget::EndDraw: Ok, D2DERR_RECREATE_TARGET, any other error.
EndDrawResults == {"ok", "recreate", "other"}

\* ID2D1HwndRenderTarget::CreateSolidColorBrush: Ok(brush) or Err.
BrushResults == {"ok", "err"}

(***************************************************************************)
(* Panic messages                                                          *)
(***************************************************************************)

NoPanic == "none"

PanicPoisoned == "Render target state poisoned"

PanicMidDraw == "Render target should not be re-created mid-draw"

PanicDrawingToCreated == "Render target cannot transition from Drawing to Created"

PanicFactory == "Failed to create device resources for Direct2D render target"

PanicEndDraw == "Unexpected error in Direct2D EndDraw()"

PanicBrush == "failed to create solid color brush"

PanicOverflow == "attempt to add with overflow"

(***************************************************************************)
(* State: the state-pattern enum of the render target                      *)
(***************************************************************************)

NoInner == [factory |-> "none", hwnd |-> 0, size |-> "none"]

NoTarget == [id |-> 0, hwnd |-> 0, size |-> "none"]

Inner(hwnd, size) == [factory |-> "factory", hwnd |-> hwnd, size |-> size]

Created(inner, target) == [tag |-> "Created", inner |-> inner, target |-> target]

Drawing(inner, target) == [tag |-> "Drawing", inner |-> inner, target |-> target]

RequiresRecreation(inner) == [tag |-> "RequiresRecreation", inner |-> inner, target |-> NoTarget]

Poisoned == [tag |-> "Poisoned", inner |-> NoInner, target |-> NoTarget]

\* The device surface the factory builds on its id-th call.
make_device_render_target(hwnd, size, id) == [id |-> id, hwnd |-> hwnd, size |-> size]

\* Result of a State method: the value left in *self, the panic raised (if
\* any), the number of factory calls made and the State values passed through.
\* A method that panics after ::std::mem::replace(self, State::Poisoned)
\* leaves *self Poisoned.
Returned(st, calls, path) == [st |-> st, panic |-> NoPanic, calls |-> calls, path |-> path]

Panicked(msg, calls, path) == [st |-> Poisoned, panic |-> msg, calls |-> calls, path |-> path]

MutRecreateFailureKeepsState(self, fres, id) ==
    CASE self.tag = "Poisoned" ->
            Panicked(PanicPoisoned, 0, <<self.tag>>)
      [] self.tag = "RequiresRecreation" ->
            IF fres = "ok"
            THEN Returned(Created(self.inner,
                                  make_device_render_target(self.inner.hwnd, self.inner.size, id)),
                          1, <<self.tag, "Created">>)
            ELSE [st |-> self, panic |-> PanicFactory, calls |-> 1, path |-> <<self.tag>>]
      [] OTHER ->
            Returned(self, 0, <<self.tag>>)

\* State::recreate_if_needed(self): consumes the state and returns the next
\* one; fres is the outcome of the factory call, id the number of that call.
recreate_if_needed(self, fres, id) ==
    CASE self.tag = "Poisoned" ->
            Panicked(PanicPoisoned, 0, <<self.tag>>)
      [] self.tag = "RequiresRecreation" ->
            IF fres = "ok"
            THEN Returned(Created(self.inner,
                                  make_device_render_target(self.inner.hwnd, self.inner.size, id)),
                          1, <<self.tag, "Created">>)
            ELSE Panicked(PanicFactory, 1, <<self.tag>>)
      [] OTHER ->
            Returned(self, 0, <<self.tag>>)

MutDeviceTargetIgnoresPoison(self, fres, id) ==
    IF self.tag = "Poisoned"
    THEN Returned(self, 0, <<self.tag>>)
    ELSE recreate_if_needed(self, fres, id)

\* State::device_target(&mut self): *self = replace(self, Poisoned).recreate_if_needed().
\* The target it returns is st.target.
State_device_target(self, fres, id) ==
    LET r == recreate_if_needed(self, fres, id)
    IN  IF r.panic # NoPanic THEN r
        ELSE IF r.st.tag = "Poisoned" THEN Panicked(PanicPoisoned, r.calls, r.path)
        ELSE r

MutBeginDrawKeepsDrawing(self, fres, id) ==
    LET r == recreate_if_needed(self, fres, id)
    IN  IF r.panic # NoPanic THEN r
        ELSE Returned(Drawing(r.st.inner, r.st.target), r.calls, r.path \o <<"Drawing">>)

MutBeginDrawSkipsCreate(self, fres, id) ==
    CASE self.tag = "Poisoned" -> Panicked(PanicPoisoned, 0, <<self.tag>>)
      [] self.tag = "Drawing" -> Panicked(PanicMidDraw, 0, <<self.tag>>)
      [] self.tag = "Created" -> Returned(Drawing(self.inner, self.target), 0, <<self.tag, "Drawing">>)
      [] OTHER -> Returned(self, 0, <<self.tag>>)

\* State::begin_draw(&mut self)
State_begin_draw(self, fres, id) ==
    LET r == recreate_if_needed(self, fres, id)
    IN  IF r.panic # NoPanic THEN r
        ELSE CASE r.st.tag = "Drawing" -> Panicked(PanicMidDraw, r.calls, r.path)
               [] r.st.tag = "Created" ->
                    Returned(Drawing(r.st.inner, r.st.target), r.calls, r.path \o <<"Drawing">>)
               [] OTHER -> Panicked(PanicPoisoned, r.calls, r.path)

MutEndDrawLeavesPoisoned(self, must_recreate, fres, id) ==
    LET r == recreate_if_needed(self, fres, id)
    IN  IF r.panic # NoPanic THEN r
        ELSE CASE r.st.tag = "Created" -> Panicked(PanicDrawingToCreated, r.calls, r.path)
               [] r.st.tag = "Drawing" ->
                    IF must_recreate
                    THEN Returned(RequiresRecreation(r.st.inner), r.calls,
                                  r.path \o <<"RequiresRecreation">>)
                    ELSE Returned(Poisoned, r.calls, r.path \o <<"Poisoned">>)
               [] OTHER -> Panicked(PanicPoisoned, r.calls, r.path)

MutEndDrawStaysDrawing(self, must_recreate, fres, id) ==
    LET r == recreate_if_needed(self, fres, id)
    IN  IF r.panic # NoPanic THEN r
        ELSE CASE r.st.tag = "Created" -> Panicked(PanicDrawingToCreated, r.calls, r.path)
               [] r.st.tag = "Drawing" ->
                    IF must_recreate
                    THEN Returned(RequiresRecreation(r.st.inner), r.calls,
                                  r.path \o <<"RequiresRecreation">>)
                    ELSE Returned(r.st, r.calls, r.path)
               [] OTHER -> Panicked(PanicPoisoned, r.calls, r.path)

MutEndDrawAcceptsCreated(self, must_recreate, fres, id) ==
    LET r == recreate_if_needed(self, fres, id)
    IN  IF r.panic # NoPanic THEN r
        ELSE CASE r.st.tag \in {"Created", "Drawing"} ->
                    IF must_recreate
                    THEN Returned(RequiresRecreation(r.st.inner), r.calls,
                                  r.path \o <<"RequiresRecreation">>)
                    ELSE Returned(Created(r.st.inner, r.st.target), r.calls,
                                  r.path \o <<"Created">>)
               [] OTHER -> Panicked(PanicPoisoned, r.calls, r.path)

MutEndDrawForgetsWindow(self, must_recreate, fres, id) ==
    LET r == recreate_if_needed(self, fres, id)
    IN  IF r.panic # NoPanic THEN r
        ELSE CASE r.st.tag = "Created" -> Panicked(PanicDrawingToCreated, r.calls, r.path)
               [] r.st.tag = "Drawing" ->
                    IF must_recreate
                    THEN Returned(RequiresRecreation([r.st.inner EXCEPT !.hwnd = 0]), r.calls,
                                  r.path \o <<"RequiresRecreation">>)
                    ELSE Returned(Created(r.st.inner, r.st.target), r.calls,
                                  r.path \o <<"Created">>)
               [] OTHER -> Panicked(PanicPoisoned, r.calls, r.path)

\* State::end_draw(&mut self, must_recreate)
State_end_draw(self, must_recreate, fres, id) ==
    LET r == recreate_if_needed(self, fres, id)
    IN  IF r.panic # NoPanic THEN r
        ELSE CASE r.st.tag = "Created" -> Panicked(PanicDrawingToCreated, r.calls, r.path)
               [] r.st.tag = "Drawing" ->
                    IF must_recreate
                    THEN Returned(RequiresRecreation(r.st.inner), r.calls,
                                  r.path \o <<"RequiresRecreation">>)
                    ELSE Returned(Created(r.st.inner, r.st.target), r.calls,
                                  r.path \o <<"Created">>)
               [] OTHER -> Panicked(PanicPoisoned, r.calls, r.path)

(***************************************************************************)
(* RenderTarget                                                            *)
(***************************************************************************)

NoBrush == [color |-> "none", device_brush |-> 0, generation |-> 0]

\* SolidColorBrush::new(color, device_brush, generation); the device brush
\* belongs to the device target that created it.
SolidColorBrush_new(color, device_brush, gen) ==
    [color |-> color, device_brush |-> device_brush, generation |-> gen]

\* Result of a RenderTarget method: the object as the call leaves it, the
\* panic raised (if any), the factory calls made, the State values passed
\* through, the value returned and the platform frame calls issued on the
\* device target (BeginDraw, EndDraw), in order.
RtResult(st, gen, panic, calls, path, target, brush) ==
    [state |-> st, generation |-> gen, panic |-> panic, calls |-> calls,
     path |-> path, target |-> target, brush |-> brush, frame_calls |-> <<>>]

\* RenderTarget::new
RenderTarget_new(hwnd, size) ==
    [state |-> RequiresRecreation(Inner(hwnd, size)), generation |-> 0]

\* RenderTarget::generation(&self)
RenderTarget_generation(rt) == rt.generation

MutGenerationCreatesDevice(rt) ==
    IF rt.state.tag = "RequiresRecreation"
    THEN RtResult(Created(rt.state.inner,
                          make_device_render_target(rt.state.inner.hwnd, rt.state.inner.size, 1)),
                  rt.generation, NoPanic, 1, <<rt.state.tag, "Created">>, NoTarget, NoBrush)
    ELSE RtResult(rt.state, rt.generation, NoPanic, 0, <<rt.state.tag>>, NoTarget, NoBrush)

\* RenderTarget::generation(&self) as a call: the body reads one field through
\* a shared reference, so the object is left as it was found.
RenderTarget_generation_self(rt) ==
    RtResult(rt.state, rt.generation, NoPanic, 0, <<rt.state.tag>>, NoTarget, NoBrush)

MutBeginDrawIssuesFrameFirst(rt, fres, id) ==
    LET b == State_begin_draw(rt.state, fres, id)
    IN  IF b.panic # NoPanic
        THEN [RtResult(b.st, rt.generation, b.panic, b.calls, b.path, NoTarget, NoBrush)
              EXCEPT !.frame_calls = <<"BeginDraw">>]
        ELSE [RtResult(b.st, rt.generation, NoPanic, b.calls, b.path, b.st.target, NoBrush)
              EXCEPT !.frame_calls = <<"BeginDraw">>]

\* RenderTarget::begin_draw(&mut self): device_target.BeginDraw() is issued
\* after both State calls have returned; the Context it returns holds target.
RenderTarget_begin_draw(rt, fres, id) ==
    LET b == State_begin_draw(rt.state, fres, id)
    IN  IF b.panic # NoPanic
        THEN RtResult(b.st, rt.generation, b.panic, b.calls, b.path, NoTarget, NoBrush)
        ELSE LET d == State_device_target(b.st, fres, id + b.calls)
             IN  IF d.panic # NoPanic
                 THEN RtResult(d.st, rt.generation, d.panic, b.calls + d.calls, b.path,
                               NoTarget, NoBrush)
                 ELSE [RtResult(d.st, rt.generation, NoPanic, b.calls + d.calls, b.path,
                                d.st.target, NoBrush)
                       EXCEPT !.frame_calls = <<"BeginDraw">>]

\* self.generation += 1 on a usize: with overflow checks (debug profile) the
\* addition panics at usize::MAX, without them (release profile) it wraps.
increment_generation(gen, checks) ==
    IF gen = UsizeMax
    THEN IF checks
         THEN [value |-> gen, panic |-> PanicOverflow]
         ELSE [value |-> 0, panic |-> NoPanic]
    ELSE [value |-> gen + 1, panic |-> NoPanic]

MutEndDrawAlwaysBumps(rt, eres, checks, fres, id) ==
    IF eres = "other"
    THEN RtResult(rt.state, rt.generation, PanicEndDraw, 0, <<rt.state.tag>>, NoTarget, NoBrush)
    ELSE LET inc == increment_generation(rt.generation, checks)
         IN  IF inc.panic # NoPanic
             THEN RtResult(rt.state, rt.generation, inc.panic, 0, <<rt.state.tag>>,
                           NoTarget, NoBrush)
             ELSE LET e == State_end_draw(rt.state, eres = "recreate", fres, id)
                  IN  RtResult(e.st, inc.value, e.panic, e.calls, e.path, NoTarget, NoBrush)

MutEndDrawRecoversOnAnyError(rt, eres, checks, fres, id) ==
    LET must_recreate == (eres # "ok")
        inc == IF must_recreate
               THEN increment_generation(rt.generation, checks)
               ELSE [value |-> rt.generation, panic |-> NoPanic]
        e == State_end_draw(rt.state, must_recreate, fres, id)
        r == IF inc.panic # NoPanic
             THEN RtResult(rt.state, rt.generation, inc.panic, 0, <<rt.state.tag>>,
                           NoTarget, NoBrush)
             ELSE RtResult(e.st, inc.value, e.panic, e.calls, e.path, NoTarget, NoBrush)
    IN  [r EXCEPT !.frame_calls = <<"EndDraw">>]

\* RenderTarget::end_draw(&mut self, device_target); eres is the outcome of
\* device_target.EndDraw(), which is issued first, whatever the state.
RenderTarget_end_draw(rt, eres, checks, fres, id) ==
    LET must_recreate == (eres = "recreate")
        inc == IF must_recreate
               THEN increment_generation(rt.generation, checks)
               ELSE [value |-> rt.generation, panic |-> NoPanic]
        e == State_end_draw(rt.state, must_recreate, fres, id)
        r == IF eres = "other"
             THEN RtResult(rt.state, rt.generation, PanicEndDraw, 0, <<rt.state.tag>>,
                           NoTarget, NoBrush)
             ELSE IF inc.panic # NoPanic
             THEN RtResult(rt.state, rt.generation, inc.panic, 0, <<rt.state.tag>>,
                           NoTarget, NoBrush)
             ELSE RtResult(e.st, inc.value, e.panic, e.calls, e.path, NoTarget, NoBrush)
    IN  [r EXCEPT !.frame_calls = <<"EndDraw">>]

MutBrushFailurePoisons(rt, color, bres, fres, id) ==
    LET d == State_device_target(rt.state, fres, id)
    IN  IF d.panic # NoPanic
        THEN RtResult(d.st, rt.generation, d.panic, d.calls, d.path, NoTarget, NoBrush)
        ELSE IF bres = "err"
        THEN RtResult(Poisoned, rt.generation, PanicBrush, d.calls, d.path, NoTarget, NoBrush)
        ELSE RtResult(d.st, rt.generation, NoPanic, d.calls, d.path, NoTarget,
                      SolidColorBrush_new(color, d.st.target.id, rt.generation))

MutBrushStampsZero(rt, color, bres, fres, id) ==
    LET d == State_device_target(rt.state, fres, id)
    IN  IF d.panic # NoPanic
        THEN RtResult(d.st, rt.generation, d.panic, d.calls, d.path, NoTarget, NoBrush)
        ELSE IF bres = "err"
        THEN RtResult(d.st, rt.generation, PanicBrush, d.calls, d.path, NoTarget, NoBrush)
        ELSE RtResult(d.st, rt.generation, NoPanic, d.calls, d.path, NoTarget,
                      SolidColorBrush_new(color, d.st.target.id, 0))

\* RenderTarget::make_solid_color_brush(&mut self, color); bres is the outcome
\* of CreateSolidColorBrush on the device target.
RenderTarget_make_solid_color_brush(rt, color, bres, fres, id) ==
    LET d == State_device_target(rt.state, fres, id)
    IN  IF d.panic # NoPanic
        THEN RtResult(d.st, rt.generation, d.panic, d.calls, d.path, NoTarget, NoBrush)
        ELSE IF bres = "err"
        THEN RtResult(d.st, rt.generation, PanicBrush, d.calls, d.path, NoTarget, NoBrush)
        ELSE RtResult(d.st, rt.generation, NoPanic, d.calls, d.path, NoTarget,
                      SolidColorBrush_new(color, d.st.target.id, RenderTarget_generation(rt)))

(***************************************************************************)
(* The system                                                              *)
(***************************************************************************)

VARIABLES
    state,           \* RenderTarget.state
    generation,      \* RenderTarget.generation
    overflow_checks, \* build profile: is usize addition overflow-checked
    factory_calls,   \* calls of D2DFactory::make_device_render_target so far
    contexts,        \* Contexts returned by begin_draw and not finalized by end_draw
    device_target,   \* the device target held by the Context begin_draw returned last
    brushes,         \* brushes the caller holds
    losses,          \* end_draw calls in which the platform reported recreate-required
    failed,          \* some operation has ended in a fatal error
    new_args,        \* the window handle and size RenderTarget::new was called with
    factory_requests, \* the (handle, size) pairs the factory was asked for so far
    open_contexts,   \* Contexts returned by begin_draw and not yet passed to end_draw
    in_frame,        \* the last platform frame call was BeginDraw
    rt_op            \* the last RenderTarget operation: what it found and what it did

rt_vars == <<state, generation, overflow_checks, factory_calls, contexts, device_target,
             brushes, losses, failed, new_args, factory_requests, open_contexts, in_frame,
             rt_op>>


VARIABLES
    close_request,   \* WindowInner.close_request
    redraw_request,  \* WindowInner.redraw_request
    keyboard,        \* WindowInner.keyboard: input events processed so far
    hwnd,            \* WindowInner.hwnd
    theme,           \* WindowInner.theme
    strong,          \* strong count of the Rc<WindowInner>; 0: the object is freed
    user_data,       \* GWLP_USERDATA of the OS window
    wnd_proc,        \* GWLP_WNDPROC of the OS window
    os_window,       \* the OS window: none, creating, exists, destroyed
    pc,              \* WindowInner::new: CreateWindowExW, configure, done, err
    app_refs,        \* strong references held by application code
    stack,           \* window-procedure calls now inside DefWindowProcW, outermost first
    releases,        \* times the raw pointer was turned back into a reference and dropped
    repeats,         \* destruction notifications delivered after the first
    aborted,         \* the process was aborted by a panic inside a window procedure
    closes_pending,  \* close notifications handled since the last clear_close_request
    paints_pending,  \* paint notifications handled since the last clear_redraw_request
    redraw_cleared,  \* clear_redraw_request has been called since construction
    kbd_guard,       \* application code holds the guard keyboard() returned
    blocked,         \* the window's thread waits inside handle_message for the keyboard lock
    win_op           \* the last window operation: what it found and what it returned

win_vars == <<close_request, redraw_request, keyboard, hwnd, theme, strong, user_data,
              wnd_proc, os_window, pc, app_refs, stack, releases, repeats, aborted,
              closes_pending, paints_pending, redraw_cleared, kbd_guard, blocked, win_op>>

VARIABLES
    last_error,      \* the calling thread's last-error value (GetLastError)
    map_op           \* the last mapping call: what it was given and what it returned

map_vars == <<last_error, map_op>>

VARIABLES
    com_cell,        \* per thread: COM_LIBRARY_HANDLE, the allocation its Weak points to
    com_handle,      \* per thread: the ComLibraryHandle allocation and its strong count
    com_initialized, \* per thread: CoInitializeEx calls that succeeded less CoUninitialize calls
    com_allocated,   \* per thread: ComLibraryHandle values created so far
    com_calls,       \* per thread: CoInitializeEx and CoUninitialize calls made so far
    foreign,         \* per thread: COM initialization done by code outside this crate
    com_op           \* the last operation on a handle: what it found and what it did

com_vars == <<com_cell, com_handle, com_initialized, com_allocated, com_calls, foreign,
              com_op>>

lib_vars == <<map_vars, com_vars>>

VARIABLES
    g_game,          \* the Game object: main_window, render_target and its two flags
    g_pc,            \* Game::run: the statement the loop is at
    g_queue,         \* the thread's message queue: posted messages, oldest first
    g_msg,           \* the MSG the last GetMessageW filled in
    quit_posted,     \* PostQuitMessage has set the thread's quit flag
    close_seen,      \* clear_close_request has returned true in this run
    lost_frame,      \* the last frame drawn was lost to a recreate-required error
    game_op          \* the last step of Game::run: what it found and what it did

game_vars == <<g_game, g_pc, g_queue, g_msg, quit_posted, close_seen, lost_frame, game_op>>

vars == <<rt_vars, win_vars, lib_vars, game_vars>>

Self == [state |-> state, generation |-> generation]

\* The arguments of the factory call a method made: the call is made by
\* recreate_if_needed on the Inner of the RequiresRecreation state it found,
\* and the surface it returns is built for them.
FactoryRequest(r, found) ==
    IF r.state.tag \in {"Created", "Drawing"}
    THEN [hwnd |-> r.state.target.hwnd, size |-> r.state.target.size]
    ELSE [hwnd |-> found.inner.hwnd, size |-> found.inner.size]

\* The record of an operation: its name and argument, the state, generation
\* and context count it found, and its result.
Op(name, arg, r) ==
    [name |-> name, arg |-> arg, pre |-> state.tag, pre_gen |-> generation,
     pre_ctx |-> contexts, panic |-> r.panic, calls |-> r.calls, path |-> r.path,
     target |-> r.target.id, brush |-> r.brush, ret |-> 0,
     pre_state |-> state, pre_open |-> open_contexts, pre_in_frame |-> in_frame,
     frame_calls |-> r.frame_calls, factory |-> "-", brush_res |-> "-"]

\* The outcome of the factory call an operation made ("-": it made none).
FactoryOutcome(r, fres) == IF r.calls = 0 THEN "-" ELSE fres

\* The outcome of the CreateSolidColorBrush call make_solid_color_brush made
\* ("-": it made none, device_target did not return a device target).
BrushOutcome(r, bres) == IF r.state.tag \in {"Created", "Drawing"} THEN bres ELSE "-"

RtInit ==
    /\ \E h \in Hwnds, size \in Sizes :
          LET rt == RenderTarget_new(h, size)
          IN  /\ state = rt.state
              /\ generation = rt.generation
              /\ new_args = [hwnd |-> h, size |-> size]
              /\ rt_op = [name |-> "new", arg |-> "-", pre |-> "-", pre_gen |-> 0,
                          pre_ctx |-> 0, panic |-> NoPanic, calls |-> 0, path |-> <<>>,
                          target |-> 0, brush |-> NoBrush, ret |-> 0,
                          pre_state |-> rt.state, pre_open |-> 0, pre_in_frame |-> FALSE,
                          frame_calls |-> <<>>, factory |-> "-", brush_res |-> "-"]
    /\ overflow_checks \in BOOLEAN
    /\ factory_calls = 0
    /\ contexts = 0
    /\ device_target = NoTarget
    /\ brushes = {}
    /\ losses = 0
    /\ failed = FALSE
    /\ factory_requests = {}
    /\ open_contexts = 0
    /\ in_frame = FALSE

\* What every RenderTarget method call does to the object and its environment:
\* a factory call is made with the handle and size of the Inner the call found.
Apply(r) ==
    /\ state' = r.state
    /\ generation' = r.generation
    /\ factory_calls' = factory_calls + r.calls
    /\ factory_requests' = IF r.calls = 0 THEN factory_requests
                           ELSE factory_requests \cup {FactoryRequest(r, state)}
    /\ in_frame' = IF r.frame_calls = <<>> THEN in_frame
                   ELSE r.frame_calls[Len(r.frame_calls)] = "BeginDraw"
    /\ failed' = (failed \/ r.panic # NoPanic)
    /\ UNCHANGED <<overflow_checks, new_args>>

\* RenderTarget::begin_draw; the caller keeps the Context it returns.
BeginDraw ==
    \E fres \in FactoryResults :
        LET r == RenderTarget_begin_draw(Self, fres, factory_calls + 1)
        IN  /\ Apply(r)
            /\ contexts' = IF r.panic = NoPanic THEN contexts + 1 ELSE contexts
            /\ open_contexts' = IF r.panic = NoPanic THEN open_contexts + 1 ELSE open_contexts
            /\ device_target' = IF r.panic = NoPanic THEN r.target ELSE device_target
            /\ rt_op' = [Op("begin_draw", "-", r) EXCEPT !.factory = FactoryOutcome(r, fres)]
            /\ UNCHANGED <<brushes, losses, win_vars, lib_vars, game_vars>>

\* RenderTarget::end_draw, called with the device target of a Context that
\* begin_draw returned.
EndDraw ==
    \E eres \in EndDrawResults, fres \in FactoryResults :
        LET r == RenderTarget_end_draw(Self, eres, overflow_checks, fres, factory_calls + 1)
        IN  /\ device_target # NoTarget
            /\ eres = "recreate" => losses < MaxLosses
            /\ Apply(r)
            /\ contexts' = IF r.panic = NoPanic THEN contexts - 1 ELSE contexts
            /\ open_contexts' = IF open_contexts > 0 THEN open_contexts - 1 ELSE 0
            /\ losses' = IF eres = "recreate" THEN losses + 1 ELSE losses
            /\ rt_op' = [Op("end_draw", eres, r) EXCEPT !.factory = FactoryOutcome(r, fres)]
            /\ UNCHANGED <<device_target, brushes, win_vars, lib_vars, game_vars>>

MakeSolidColorBrush ==
    \E color \in Colors, bres \in BrushResults, fres \in FactoryResults :
        LET r == RenderTarget_make_solid_color_brush(Self, color, bres, fres, factory_calls + 1)
        IN  /\ Cardinality(brushes) < MaxBrushes
            /\ Apply(r)
            /\ brushes' = IF r.panic = NoPanic THEN brushes \cup {r.brush} ELSE brushes
            /\ rt_op' = [Op("make_solid_color_brush", color, r)
                         EXCEPT !.factory = FactoryOutcome(r, fres),
                                !.brush_res = BrushOutcome(r, bres)]
            /\ UNCHANGED <<contexts, open_contexts, device_target, losses, win_vars, lib_vars, game_vars>>

\* RenderTarget::generation; the caller reads the value it returns.
Generation ==
    LET r == RenderTarget_generation_self(Self)
    IN  /\ Apply(r)
        /\ rt_op' = [Op("generation", "-", r) EXCEPT !.ret = RenderTarget_generation(Self)]
        /\ UNCHANGED <<contexts, open_contexts, device_target, brushes, losses,
                       win_vars, lib_vars, game_vars>>

\* The caller releases a brush it owns.
DropBrush ==
    /\ \E b \in brushes : brushes' = brushes \ {b}
    /\ UNCHANGED <<state, generation, overflow_checks, factory_calls, contexts,
                   device_target, losses, failed, new_args, factory_requests,
                   open_contexts, in_frame, rt_op, win_vars, lib_vars, game_vars>>

(***************************************************************************)
(* WindowInner: the window object, its request flags and the bridge that   *)
(* ties it to the OS window (user-data slot, window procedures, Rc count)  *)
(***************************************************************************)

\* Window messages: paint, close, a keyboard message, any other message.
Msgs == {"WM_PAINT", "WM_CLOSE", "WM_KEYDOWN", "WM_GETMINMAXINFO"}

\* The first structural creation notification and the final destruction
\* notification.
WM_NCCREATE == "WM_NCCREATE"

WM_NCDESTROY == "WM_NCDESTROY"

Themes == {"DarkMode", "LightMode"}

\* HWND(0), the null sentinel of the handle field, and the handle the OS
\* gives the window.
NullHwnd == 0

TheHwnd == 1

\* The null pointer and the pointer Rc::into_raw(this.clone()) returned.
NullPtr == 0

ObjPtr == 1

PanicNullHandle == "Window handle was NULL"

PanicUnwrap == "called Result::unwrap() on an Err value"

\* The way a call ends that waits for a lock its own thread holds: it never
\* returns.  It is recorded where a panic is, as the reason the call did not
\* return.
Blocked == "blocked in RwLock::write()"

\* KbdAdapter::handles_msg: the input adapter recognises keyboard messages.
KbdAdapter_handles_msg(umsg) == umsg \in {"WM_KEYDOWN"}

\* WindowInner::new, up to the call of CreateWindowExW: Rc::new(Self {..})
\* with the handle field defaulted to null, then this.clone() turned into
\* the raw pointer passed as the creation parameter (strong count 2).
WindowInner_new(th) ==
    [close_request |-> FALSE, redraw_request |-> TRUE, keyboard |-> 0,
     hwnd |-> NullHwnd, theme |-> th, strong |-> 2, keyboard_locked |-> FALSE]

\* The OS side of one window: the GWLP_USERDATA slot and the GWLP_WNDPROC
\* routine.  A window of the class starts with the routine the class was
\* registered with, wnd_proc_setup.
OsWindow_new == [user_data |-> NullPtr, wnd_proc |-> "wnd_proc_setup"]

\* Result of a call into the object or of a window procedure: the object and
\* the OS window afterwards, the bool returned (for a window procedure:
\* whether handle_message consumed the message), whether DefWindowProcW was
\* called, the panic raised (if any), how many times the raw pointer was
\* turned back into a strong reference and dropped, whether the object was
\* touched after its strong count had reached 0, and the LRESULT of a window
\* procedure (DefWindowProcW's value or LRESULT(0)).
WinResult(this, os, ret, forwarded, panic, released, uaf) ==
    [this |-> this, os |-> os, ret |-> ret, forwarded |-> forwarded, panic |-> panic,
     released |-> released, uaf |-> uaf,
     lresult |-> IF forwarded THEN "DefWindowProcW" ELSE "-"]

MutHwndUnchecked(this) == [val |-> this.hwnd, panic |-> NoPanic]

\* WindowInner::hwnd: assert_ne!(val.0, 0, ..)
WindowInner_hwnd(this) ==
    IF this.hwnd = NullHwnd
    THEN [val |-> NullHwnd, panic |-> PanicNullHandle]
    ELSE [val |-> this.hwnd, panic |-> NoPanic]

MutPaintSetsClose(this, os, umsg, adapted) ==
    IF KbdAdapter_handles_msg(umsg)
    THEN WinResult(IF adapted THEN [this EXCEPT !.keyboard = @ + 1] ELSE this, os,
                   TRUE, FALSE, NoPanic, 0, FALSE)
    ELSE CASE umsg = "WM_PAINT" ->
                WinResult([this EXCEPT !.close_request = TRUE], os, FALSE, FALSE, NoPanic, 0, FALSE)
           [] umsg = "WM_CLOSE" ->
                WinResult([this EXCEPT !.close_request = TRUE], os, TRUE, FALSE, NoPanic, 0, FALSE)
           [] OTHER -> WinResult(this, os, FALSE, FALSE, NoPanic, 0, FALSE)

MutCloseClearsHandle(this, os, umsg, adapted) ==
    IF KbdAdapter_handles_msg(umsg)
    THEN WinResult(IF adapted THEN [this EXCEPT !.keyboard = @ + 1] ELSE this, os,
                   TRUE, FALSE, NoPanic, 0, FALSE)
    ELSE CASE umsg = "WM_PAINT" ->
                WinResult([this EXCEPT !.redraw_request = TRUE], os, FALSE, FALSE, NoPanic, 0, FALSE)
           [] umsg = "WM_CLOSE" ->
                WinResult([this EXCEPT !.close_request = TRUE, !.hwnd = NullHwnd], os,
                          TRUE, FALSE, NoPanic, 0, FALSE)
           [] umsg = WM_NCDESTROY ->
                IF this.hwnd = NullHwnd
                THEN WinResult(this, os, FALSE, FALSE, PanicNullHandle, 0, FALSE)
                ELSE LET dropped == [this EXCEPT !.strong = @ - 1]
                     IN  WinResult([dropped EXCEPT !.hwnd = NullHwnd],
                                   [os EXCEPT !.user_data = NullPtr],
                                   FALSE, FALSE, NoPanic, 1, dropped.strong = 0)
           [] OTHER -> WinResult(this, os, FALSE, FALSE, NoPanic, 0, FALSE)

MutDestroyKeepsHandle(this, os, umsg, adapted) ==
    IF KbdAdapter_handles_msg(umsg)
    THEN WinResult(IF adapted THEN [this EXCEPT !.keyboard = @ + 1] ELSE this, os,
                   TRUE, FALSE, NoPanic, 0, FALSE)
    ELSE CASE umsg = "WM_PAINT" ->
                WinResult([this EXCEPT !.redraw_request = TRUE], os, FALSE, FALSE, NoPanic, 0, FALSE)
           [] umsg = "WM_CLOSE" ->
                WinResult([this EXCEPT !.close_request = TRUE], os, TRUE, FALSE, NoPanic, 0, FALSE)
           [] umsg = WM_NCDESTROY ->
                LET dropped == [this EXCEPT !.strong = @ - 1]
                IN  WinResult(dropped, [os EXCEPT !.user_data = NullPtr],
                              FALSE, FALSE, NoPanic, 1, dropped.strong = 0)
           [] OTHER -> WinResult(this, os, FALSE, FALSE, NoPanic, 0, FALSE)

MutDestroyKeepsSlot(this, os, umsg, adapted) ==
    IF KbdAdapter_handles_msg(umsg)
    THEN WinResult(IF adapted THEN [this EXCEPT !.keyboard = @ + 1] ELSE this, os,
                   TRUE, FALSE, NoPanic, 0, FALSE)
    ELSE CASE umsg = "WM_PAINT" ->
                WinResult([this EXCEPT !.redraw_request = TRUE], os, FALSE, FALSE, NoPanic, 0, FALSE)
           [] umsg = "WM_CLOSE" ->
                WinResult([this EXCEPT !.close_request = TRUE], os, TRUE, FALSE, NoPanic, 0, FALSE)
           [] umsg = WM_NCDESTROY ->
                LET dropped == [this EXCEPT !.strong = @ - 1]
                IN  WinResult(dropped, os, FALSE, FALSE, NoPanic, 1, dropped.strong = 0)
           [] OTHER -> WinResult(this, os, FALSE, FALSE, NoPanic, 0, FALSE)

\* WindowInner::handle_message(&self, umsg, ..): ret is the value returned
\* (true: the message is consumed), forwarded its negation; adapted tells
\* whether KbdAdapter::adapt produced an event.  The destruction notification
\* reads the handle through hwnd(), swaps null into the user-data slot, turns
\* the pointer it held back into a strong reference and drops it at once
\* (let _ = ..), and only then writes the handle field.  An adapted keyboard
\* event is processed under self.keyboard.write(): a parking_lot RwLock, whose
\* write() waits, without end on the thread that holds the lock, until the
\* lock is free.
handle_message(this, os, umsg, adapted) ==
    IF KbdAdapter_handles_msg(umsg)
    THEN IF adapted /\ this.keyboard_locked
         THEN WinResult(this, os, FALSE, FALSE, Blocked, 0, FALSE)
         ELSE WinResult(IF adapted THEN [this EXCEPT !.keyboard = @ + 1] ELSE this, os,
                        TRUE, FALSE, NoPanic, 0, FALSE)
    ELSE CASE umsg = "WM_PAINT" ->
                WinResult([this EXCEPT !.redraw_request = TRUE], os, FALSE, FALSE, NoPanic, 0, FALSE)
           [] umsg = "WM_CLOSE" ->
                WinResult([this EXCEPT !.close_request = TRUE], os, TRUE, FALSE, NoPanic, 0, FALSE)
           [] umsg = WM_NCDESTROY ->
                IF WindowInner_hwnd(this).panic # NoPanic
                THEN WinResult(this, os, FALSE, FALSE, WindowInner_hwnd(this).panic, 0, FALSE)
                ELSE LET dropped == [this EXCEPT !.strong = @ - 1]
                     IN  WinResult([dropped EXCEPT !.hwnd = NullHwnd],
                                   [os EXCEPT !.user_data = NullPtr],
                                   FALSE, FALSE, NoPanic, 1, dropped.strong = 0)
           [] OTHER -> WinResult(this, os, FALSE, FALSE, NoPanic, 0, FALSE)

MutSetupKeepsRoutine(this, os, umsg, lpCreateParams) ==
    IF umsg = WM_NCCREATE
    THEN WinResult(this, [os EXCEPT !.user_data = lpCreateParams], FALSE, TRUE, NoPanic, 0, FALSE)
    ELSE WinResult(this, os, FALSE, TRUE, NoPanic, 0, FALSE)

\* WindowInner::wnd_proc_setup: on WM_NCCREATE the creation parameter goes
\* into the user-data slot and wnd_proc_thunk becomes the window procedure;
\* every message goes on to DefWindowProcW, whose value is returned.
wnd_proc_setup(this, os, umsg, lpCreateParams) ==
    IF umsg = WM_NCCREATE
    THEN WinResult(this, [os EXCEPT !.user_data = lpCreateParams,
                                    !.wnd_proc = "wnd_proc_thunk"],
                   FALSE, TRUE, NoPanic, 0, FALSE)
    ELSE WinResult(this, os, FALSE, TRUE, NoPanic, 0, FALSE)

MutThunkNoRetain(this, os, umsg, adapted) ==
    IF os.user_data # NullPtr
    THEN LET h == handle_message(this, os, umsg, adapted)
         IN  IF h.panic # NoPanic
             THEN h
             ELSE IF h.ret
             THEN [WinResult([h.this EXCEPT !.strong = @ - 1], h.os, TRUE, FALSE, NoPanic,
                             h.released, h.uaf \/ h.this.strong = 0)
                   EXCEPT !.lresult = "LRESULT(0)"]
             ELSE WinResult([h.this EXCEPT !.strong = @ - 1], h.os, FALSE, TRUE, NoPanic,
                            h.released, h.uaf \/ h.this.strong = 0)
    ELSE WinResult(this, os, FALSE, TRUE, NoPanic, 0, FALSE)

MutThunkForwardsAll(this, os, umsg, adapted) ==
    IF os.user_data # NullPtr
    THEN LET h == handle_message([this EXCEPT !.strong = @ + 1], os, umsg, adapted)
         IN  IF h.panic # NoPanic
             THEN h
             ELSE WinResult([h.this EXCEPT !.strong = @ - 1], h.os, h.ret, TRUE, NoPanic,
                            h.released, h.uaf)
    ELSE WinResult(this, os, FALSE, TRUE, NoPanic, 0, FALSE)

MutThunkIgnoresNullSlot(this, os, umsg, adapted) ==
    LET h == handle_message([this EXCEPT !.strong = @ + 1], os, umsg, adapted)
    IN  IF h.panic # NoPanic
        THEN h
        ELSE IF h.ret
        THEN [WinResult([h.this EXCEPT !.strong = @ - 1], h.os, TRUE, FALSE, NoPanic,
                        h.released, h.uaf)
              EXCEPT !.lresult = "LRESULT(0)"]
        ELSE WinResult([h.this EXCEPT !.strong = @ - 1], h.os, FALSE, TRUE, NoPanic,
                       h.released, h.uaf)

\* WindowInner::wnd_proc_thunk: with a non-null user-data slot, one more
\* strong reference is taken for the call of handle_message and dropped when
\* it has returned; LRESULT(0) is returned for a consumed message, every
\* other message (and every message found with a null slot) goes on to
\* DefWindowProcW.
\* A panic leaves handle_message with the extra reference still held.
wnd_proc_thunk(this, os, umsg, adapted) ==
    IF os.user_data # NullPtr
    THEN LET h == handle_message([this EXCEPT !.strong = @ + 1], os, umsg, adapted)
         IN  IF h.panic # NoPanic
             THEN h
             ELSE IF h.ret
             THEN [WinResult([h.this EXCEPT !.strong = @ - 1], h.os, TRUE, FALSE, NoPanic,
                             h.released, h.uaf)
                   EXCEPT !.lresult = "LRESULT(0)"]
             ELSE WinResult([h.this EXCEPT !.strong = @ - 1], h.os, FALSE, TRUE, NoPanic,
                            h.released, h.uaf)
    ELSE WinResult(this, os, FALSE, TRUE, NoPanic, 0, FALSE)

\* The window procedure the OS calls for the window: the routine installed
\* in GWLP_WNDPROC.
WndProc(this, os, umsg, adapted) ==
    IF os.wnd_proc = "wnd_proc_setup"
    THEN wnd_proc_setup(this, os, umsg, ObjPtr)
    ELSE wnd_proc_thunk(this, os, umsg, adapted)

MutClearCloseClearsBoth(this) ==
    [this |-> [this EXCEPT !.close_request = FALSE, !.redraw_request = FALSE],
     ret |-> this.close_request]

\* WindowInner::clear_close_request: close_request.swap(false)
clear_close_request(this) ==
    [this |-> [this EXCEPT !.close_request = FALSE], ret |-> this.close_request]

\* WindowInner::keyboard: self.keyboard.write(), the guard handed to the caller.
WindowInner_keyboard(this) == [this EXCEPT !.keyboard_locked = TRUE]

MutClearRedrawLeavesFlag(this) ==
    [this |-> this, ret |-> this.redraw_request]

\* WindowInner::clear_redraw_request: redraw_request.swap(false)
clear_redraw_request(this) ==
    [this |-> [this EXCEPT !.redraw_request = FALSE], ret |-> this.redraw_request]

\* WindowInner::set_theme: the theme is stored, then the handle is read
\* through hwnd() for DwmSetWindowAttribute, whose error is unwrapped; dres
\* is the outcome of that call.  os_calls counts the calls that reached the OS.
set_theme(this, th, dres) ==
    LET stored == [this EXCEPT !.theme = th]
        h == WindowInner_hwnd(stored)
    IN  IF h.panic # NoPanic
        THEN [this |-> stored, panic |-> h.panic, os_calls |-> 0, passed |-> NullHwnd]
        ELSE IF dres = "err"
        THEN [this |-> stored, panic |-> PanicUnwrap, os_calls |-> 1, passed |-> h.val]
        ELSE [this |-> stored, panic |-> NoPanic, os_calls |-> 1, passed |-> h.val]

\* WindowInner::destroy: DestroyWindow(self.hwnd()), its error returned to
\* the caller; dres is the outcome of DestroyWindow.  A DestroyWindow that
\* succeeds has sent the window its destruction notification before it
\* returns.
destroy(this, os, dres) ==
    LET h == WindowInner_hwnd(this)
    IN  IF h.panic # NoPanic
        THEN [r |-> WinResult(this, os, FALSE, FALSE, h.panic, 0, FALSE),
              os_calls |-> 0, passed |-> NullHwnd]
        ELSE IF dres = "err"
        THEN [r |-> WinResult(this, os, FALSE, FALSE, NoPanic, 0, FALSE),
              os_calls |-> 1, passed |-> h.val]
        ELSE LET d == WndProc(this, os, WM_NCDESTROY, FALSE)
             IN  [r |-> [d EXCEPT !.ret = TRUE], os_calls |-> 1, passed |-> h.val]

This == [close_request |-> close_request, redraw_request |-> redraw_request,
         keyboard |-> keyboard, hwnd |-> hwnd, theme |-> theme, strong |-> strong,
         keyboard_locked |-> kbd_guard]

Os == [user_data |-> user_data, wnd_proc |-> wnd_proc]

\* What an operation found: the flags, the handle field, the strong count,
\* the OS window and the bridge's accounting.
Pre == [close_request |-> close_request, redraw_request |-> redraw_request,
        hwnd |-> hwnd, strong |-> strong, user_data |-> user_data,
        wnd_proc |-> wnd_proc, os_window |-> os_window, pc |-> pc,
        app_refs |-> app_refs, released |-> releases]

\* The record of a window operation: its name and argument, the pending
\* notifications and the state it found, and its result.  os_calls counts
\* the OS calls that were given the window handle, passed is that handle.
WinOp(name, arg, r) ==
    [name |-> name, arg |-> arg, ret |-> r.ret, closes |-> closes_pending,
     paints |-> paints_pending, forwarded |-> r.forwarded, lresult |-> r.lresult,
     panic |-> r.panic, released |-> r.released, uaf |-> r.uaf, pre |-> Pre,
     os_calls |-> 0, passed |-> NullHwnd, os_result |-> "-"]

\* An operation that is no window procedure and touches no reference.
Plain(this, ret, panic) == WinResult(this, Os, ret, FALSE, panic, 0, FALSE)

\* The state at the call of CreateWindowExW in WindowInner::new.
WinInit ==
    /\ \E t \in Themes :
          LET this == WindowInner_new(t)
          IN  /\ close_request = this.close_request
              /\ redraw_request = this.redraw_request
              /\ keyboard = this.keyboard
              /\ hwnd = this.hwnd
              /\ theme = this.theme
              /\ strong = this.strong
    /\ user_data = OsWindow_new.user_data
    /\ wnd_proc = OsWindow_new.wnd_proc
    /\ os_window = "none"
    /\ pc = "CreateWindowExW"
    /\ app_refs = 1
    /\ stack = <<>>
    /\ releases = 0
    /\ repeats = 0
    /\ aborted = FALSE
    /\ closes_pending = 0
    /\ paints_pending = 0
    /\ redraw_cleared = FALSE
    /\ kbd_guard = FALSE
    /\ blocked = FALSE
    /\ win_op = [WinOp("new", "-", Plain(WindowInner_new("LightMode"), FALSE, NoPanic))
                 EXCEPT !.pre = [close_request |-> FALSE, redraw_request |-> TRUE,
                                 hwnd |-> NullHwnd, strong |-> 0, user_data |-> NullPtr,
                                 wnd_proc |-> "-", os_window |-> "none", pc |-> "-",
                                 app_refs |-> 0, released |-> 0],
                        !.closes = 0, !.paints = 0]

\* What a call leaves in the object and in the OS window.
WinApply(r) ==
    /\ close_request' = r.this.close_request
    /\ redraw_request' = r.this.redraw_request
    /\ keyboard' = r.this.keyboard
    /\ hwnd' = r.this.hwnd
    /\ theme' = r.this.theme
    /\ strong' = r.this.strong
    /\ user_data' = r.os.user_data
    /\ wnd_proc' = r.os.wnd_proc
    /\ releases' = releases + r.released

\* The window's thread runs: the process was not aborted and the thread does
\* not wait for a lock.
Running == ~aborted /\ ~blocked

\* handle_message is reached: the steady-state routine is installed and
\* finds the object pointer in the user-data slot.
Dispatched == wnd_proc = "wnd_proc_thunk" /\ user_data # NullPtr

\* The OS sends the window a message: during CreateWindowExW, during the
\* calls that follow it in WindowInner::new, from the message pump, or from
\* inside DefWindowProcW while an earlier message is being forwarded.  The
\* destruction notification is the last message a window receives.
HandleMessage ==
    \E umsg \in Msgs, adapted \in BOOLEAN :
        LET r == WndProc(This, Os, umsg, adapted)
        IN  /\ Running
            /\ os_window \in {"none", "creating", "exists"}
            /\ os_window = "none" => pc = "CreateWindowExW"
            /\ pc = "CreateWindowExW" => umsg = "WM_GETMINMAXINFO"
            /\ Len(stack) < MaxDepth
            /\ umsg = "WM_CLOSE" => closes_pending < MaxPending
            /\ umsg = "WM_PAINT" => paints_pending < MaxPending
            /\ r.this.keyboard <= MaxKeyEvents
            /\ adapted => (Dispatched /\ KbdAdapter_handles_msg(umsg))
            /\ WinApply(r)
            /\ stack' = IF r.forwarded
                        THEN Append(stack, [umsg |-> umsg, strong |-> strong])
                        ELSE stack
            /\ closes_pending' = IF Dispatched /\ umsg = "WM_CLOSE"
                                 THEN closes_pending + 1 ELSE closes_pending
            /\ paints_pending' = IF Dispatched /\ umsg = "WM_PAINT"
                                 THEN paints_pending + 1 ELSE paints_pending
            /\ win_op' = WinOp(wnd_proc, umsg, r)
            /\ blocked' = (r.panic = Blocked)
            /\ UNCHANGED <<os_window, pc, app_refs, repeats, aborted, redraw_cleared,
                           kbd_guard, rt_vars, lib_vars, game_vars>>

\* DefWindowProcW returns and with it the window procedure that called it.
DefWindowProcReturns ==
    /\ Running
    /\ stack # <<>>
    /\ LET frame == stack[Len(stack)]
       IN  win_op' = [WinOp("DefWindowProcW", frame.umsg, Plain(This, FALSE, NoPanic))
                      EXCEPT !.pre.strong = frame.strong]
    /\ stack' = SubSeq(stack, 1, Len(stack) - 1)
    /\ UNCHANGED <<close_request, redraw_request, keyboard, hwnd, theme, strong, user_data,
                   wnd_proc, os_window, pc, app_refs, releases, repeats, aborted,
                   closes_pending, paints_pending, redraw_cleared, kbd_guard, blocked, rt_vars, lib_vars, game_vars>>

\* CreateWindowExW sends the window its first structural creation
\* notification.
NcCreate ==
    LET r == WndProc(This, Os, WM_NCCREATE, FALSE)
    IN  /\ Running
        /\ pc = "CreateWindowExW"
        /\ os_window = "none"
        /\ stack = <<>>
        /\ WinApply(r)
        /\ os_window' = "creating"
        /\ win_op' = WinOp(wnd_proc, WM_NCCREATE, r)
        /\ UNCHANGED <<pc, app_refs, stack, repeats, aborted, closes_pending,
                       paints_pending, redraw_cleared, kbd_guard, blocked, rt_vars, lib_vars, game_vars>>

\* A panic that leaves an extern "system" window procedure aborts the
\* process or, in a build that lets it unwind through the OS frames, drops
\* the extra reference of the call and reaches the Rust caller of the OS
\* function (WindowInner::new inside CreateWindowExW, which drops this).
PanicInCallback == {"abort", "unwind"}

\* The OS destroys the window and sends it the destruction notification: a
\* CreateWindowExW that fails after the creation notification, the owner of
\* the handle calling DestroyWindow, the end of the thread.  The notification
\* may be delivered again for a destroyed window.  It is not sent from
\* inside DefWindowProcW: the close notification, the one message whose
\* default handling destroys the window, is consumed by handle_message.
NcDestroy ==
    LET r == WndProc(This, Os, WM_NCDESTROY, FALSE)
    IN  /\ Running
        /\ stack = <<>>
        /\ os_window \in {"creating", "exists"} \/ (os_window = "destroyed" /\ repeats < MaxRepeats)
        /\ \E outcome \in IF r.panic # NoPanic THEN PanicInCallback ELSE {"return"} :
              LET unwound == IF outcome = "unwind" /\ pc = "CreateWindowExW" THEN 1 ELSE 0
              IN  /\ aborted' = (outcome = "abort")
                  /\ WinApply(IF outcome = "unwind"
                              THEN [r EXCEPT !.this.strong = @ - 1 - unwound]
                              ELSE r)
                  /\ app_refs' = app_refs - unwound
                  /\ pc' = IF unwound = 1 THEN "err" ELSE pc
        /\ os_window' = "destroyed"
        /\ repeats' = IF os_window = "destroyed" THEN repeats + 1 ELSE repeats
        /\ win_op' = WinOp(wnd_proc, WM_NCDESTROY, r)
        /\ UNCHANGED <<stack, closes_pending, paints_pending, redraw_cleared, kbd_guard, blocked, rt_vars, lib_vars, game_vars>>

\* CreateWindowExW returns to WindowInner::new: the handle, stored in the
\* handle field, or an error, returned with the ? operator (the local
\* reference this is dropped).
CreateWindowExWReturns ==
    LET ok == os_window = "creating"
    IN  /\ Running
        /\ pc = "CreateWindowExW"
        /\ stack = <<>>
        /\ hwnd' = IF ok THEN TheHwnd ELSE hwnd
        /\ os_window' = IF ok THEN "exists" ELSE os_window
        /\ pc' = IF ok THEN "configure" ELSE "err"
        /\ app_refs' = IF ok THEN app_refs ELSE app_refs - 1
        /\ strong' = IF ok THEN strong ELSE strong - 1
        /\ win_op' = [WinOp("CreateWindowExW", "-", Plain(This, ok, NoPanic))
                      EXCEPT !.os_result = IF ok THEN "ok" ELSE "err"]
        /\ UNCHANGED <<close_request, redraw_request, keyboard, theme, user_data, wnd_proc,
                       stack, releases, repeats, aborted, closes_pending, paints_pending,
                       redraw_cleared, kbd_guard, blocked, rt_vars, lib_vars, game_vars>>

ConfigureResults == {"ok", "err"}

DwmResults == {"ok", "err"}

DestroyResults == {"ok", "err"}

\* The rest of WindowInner::new: sizing the window (AdjustWindowRectExForDpi,
\* SetWindowPos; an error is returned with ?), set_theme, ShowWindow and
\* UpdateWindow, Ok(this).  The messages these calls send are HandleMessage
\* steps.  An error return and a panic both drop the local reference this.
Configure ==
    \E res \in ConfigureResults, dres \in DwmResults :
        LET t == set_theme(This, theme, dres)
            ok == res = "ok" /\ t.panic = NoPanic
        IN  /\ Running
            /\ pc = "configure"
            /\ stack = <<>>
            /\ res = "err" => dres = "ok"
            /\ pc' = IF ok THEN "done" ELSE "err"
            /\ app_refs' = IF ok THEN app_refs ELSE app_refs - 1
            /\ strong' = IF ok THEN strong ELSE strong - 1
            /\ win_op' = [WinOp("configure", res,
                                Plain(This, ok, IF res = "ok" THEN t.panic ELSE NoPanic))
                          EXCEPT !.os_result = IF res = "ok" /\ dres = "ok" THEN "ok" ELSE "err"]
            /\ UNCHANGED <<close_request, redraw_request, keyboard, hwnd, theme, user_data,
                           wnd_proc, os_window, stack, releases, repeats, aborted,
                           closes_pending, paints_pending, redraw_cleared, kbd_guard, blocked, rt_vars, lib_vars, game_vars>>

\* Application code holds a reference to the constructed object and is not
\* inside a window procedure.
AppCanCall ==
    /\ Running
    /\ pc = "done"
    /\ app_refs >= 1
    /\ stack = <<>>

ClearCloseRequest ==
    LET r == clear_close_request(This)
    IN  /\ AppCanCall
        /\ WinApply(Plain(r.this, r.ret, NoPanic))
        /\ closes_pending' = 0
        /\ win_op' = WinOp("clear_close_request", "-", Plain(r.this, r.ret, NoPanic))
        /\ UNCHANGED <<os_window, pc, app_refs, stack, repeats, aborted, paints_pending,
                       redraw_cleared, kbd_guard, blocked, rt_vars, lib_vars, game_vars>>

ClearRedrawRequest ==
    LET r == clear_redraw_request(This)
    IN  /\ AppCanCall
        /\ WinApply(Plain(r.this, r.ret, NoPanic))
        /\ paints_pending' = 0
        /\ redraw_cleared' = TRUE
        /\ win_op' = WinOp("clear_redraw_request", "-", Plain(r.this, r.ret, NoPanic))
        /\ UNCHANGED <<os_window, pc, app_refs, stack, repeats, aborted, closes_pending,
                       kbd_guard, blocked, rt_vars, lib_vars, game_vars>>

\* WindowInner::hwnd
Hwnd ==
    LET h == WindowInner_hwnd(This)
    IN  /\ AppCanCall
        /\ win_op' = [WinOp("hwnd", "-", Plain(This, FALSE, h.panic)) EXCEPT !.passed = h.val]
        /\ UNCHANGED <<close_request, redraw_request, keyboard, hwnd, theme, strong, user_data,
                       wnd_proc, os_window, pc, app_refs, stack, releases, repeats, aborted,
                       closes_pending, paints_pending, redraw_cleared, kbd_guard, blocked, rt_vars, lib_vars, game_vars>>

\* WindowInner::set_theme
SetTheme ==
    \E t \in Themes, dres \in DwmResults :
        LET r == set_theme(This, t, dres)
        IN  /\ AppCanCall
            /\ WinApply(Plain(r.this, FALSE, r.panic))
            /\ win_op' = [WinOp("set_theme", t, Plain(r.this, FALSE, r.panic))
                          EXCEPT !.os_calls = r.os_calls, !.passed = r.passed,
                                 !.os_result = IF r.os_calls = 1 THEN dres ELSE "-"]
            /\ UNCHANGED <<os_window, pc, app_refs, stack, repeats, aborted, closes_pending,
                           paints_pending, redraw_cleared, kbd_guard, blocked, rt_vars, lib_vars, game_vars>>

\* WindowInner::destroy
Destroy ==
    \E dres \in DestroyResults :
        LET d == destroy(This, Os, dres)
        IN  /\ AppCanCall
            /\ WinApply(d.r)
            /\ os_window' = IF d.os_calls = 1 /\ dres = "ok" THEN "destroyed" ELSE os_window
            /\ win_op' = [WinOp("destroy", dres, d.r)
                          EXCEPT !.os_calls = d.os_calls, !.passed = d.passed,
                                 !.os_result = IF d.os_calls = 1 THEN dres ELSE "-"]
            /\ UNCHANGED <<pc, app_refs, stack, repeats, aborted, closes_pending,
                           paints_pending, redraw_cleared, kbd_guard, blocked, rt_vars, lib_vars, game_vars>>

\* Application code clones the reference it holds.
CloneRef ==
    /\ AppCanCall
    /\ app_refs < MaxAppRefs
    /\ app_refs' = app_refs + 1
    /\ strong' = strong + 1
    /\ win_op' = WinOp("clone", "-", Plain(This, FALSE, NoPanic))
    /\ UNCHANGED <<close_request, redraw_request, keyboard, hwnd, theme, user_data, wnd_proc,
                   os_window, pc, stack, releases, repeats, aborted, closes_pending,
                   paints_pending, redraw_cleared, kbd_guard, blocked, rt_vars, lib_vars, game_vars>>

\* Application code drops a reference it holds; the guard of keyboard()
\* borrows one.
DropRef ==
    /\ AppCanCall
    /\ kbd_guard => app_refs > 1
    /\ app_refs' = app_refs - 1
    /\ strong' = strong - 1
    /\ win_op' = WinOp("drop", "-", Plain(This, FALSE, NoPanic))
    /\ UNCHANGED <<close_request, redraw_request, keyboard, hwnd, theme, user_data, wnd_proc,
                   os_window, pc, stack, releases, repeats, aborted, closes_pending,
                   paints_pending, redraw_cleared, kbd_guard, blocked, rt_vars, lib_vars, game_vars>>

\* WindowInner::keyboard: application code takes the keyboard guard and keeps it.
Keyboard ==
    LET r == WindowInner_keyboard(This)
    IN  /\ AppCanCall
        /\ ~kbd_guard
        /\ kbd_guard' = r.keyboard_locked
        /\ win_op' = WinOp("keyboard", "-", Plain(This, FALSE, NoPanic))
        /\ UNCHANGED <<close_request, redraw_request, keyboard, hwnd, theme, strong, user_data,
                       wnd_proc, os_window, pc, app_refs, stack, releases, repeats, aborted,
                       closes_pending, paints_pending, redraw_cleared, blocked,
                       rt_vars, lib_vars, game_vars>>

\* Application code drops the keyboard guard.
DropKeyboardGuard ==
    /\ AppCanCall
    /\ kbd_guard
    /\ kbd_guard' = FALSE
    /\ win_op' = WinOp("drop_guard", "-", Plain(This, FALSE, NoPanic))
    /\ UNCHANGED <<close_request, redraw_request, keyboard, hwnd, theme, strong, user_data,
                   wnd_proc, os_window, pc, app_refs, stack, releases, repeats, aborted,
                   closes_pending, paints_pending, redraw_cleared, blocked,
                   rt_vars, lib_vars, game_vars>>

(***************************************************************************)
(* mappings: Win32 return values mapped to Result, with the source hint    *)
(* and the platform error attached (src/mappings.rs, src/errors.rs)        *)
(***************************************************************************)

\* The values of the thread's last-error value: 0 (no error) or a system
\* error code.
ErrorCodes == 0..MaxErrorCode

\* What a wrapped function returns: an integer of a signed or unsigned type,
\* a BOOL or a pointer; 0 is zero, BOOL(0) and the null pointer.
Values == (0 - 1)..MaxValue

\* The unit value of Ok(()).
Unit == 0

SourceHints == {"GetModuleHandleW", "CreateWindowExW"}

\* The wrapped function leaves the last-error value alone.
Untouched == 0 - 1

\* HRESULT::from_win32 and WIN32_ERROR::to_hresult: 0 stays 0, any other
\* code is placed in the low 16 bits under FACILITY_WIN32 with the failure
\* bit set (0x8007_0000 | code, a negative i32).
HRESULT_from_win32(code) ==
    IF code = 0 THEN 0 ELSE (code % 65536) - 2147024896

\* WIN32_ERROR::from_error: the system error code a FACILITY_WIN32 HRESULT
\* carries.
WIN32_ERROR_from_hresult(hr) ==
    IF hr = 0 THEN 0 ELSE (hr + 2147024896) % 65536

\* E_FAIL, 0x8000_4005.
E_FAIL == 0 - 2147467259

\* The HRESULT of a windows::core::Result: 0 for Ok, a failure code for Err.
HResults == {0, E_FAIL, HRESULT_from_win32(1)}

\* A wrapped function (the closure around a Win32 call): the value it
\* returns, the error of the windows::core::Result it returns (0: Ok; only
\* for functions that return a Result) and the last-error value it sets.
Win32Functions == [ret : Values, err : {0}, sets : ErrorCodes \cup {Untouched}]

ResultFunctions ==
    {f \in [ret : Values, err : HResults, sets : ErrorCodes \cup {Untouched}] :
        f.err # 0 => f.ret = 0}

\* windows::core::Error with its code.
Win32Error(code) == [code |-> code]

\* windows::core::Error::from_win32(): built from GetLastError().
Win32Error_from_win32(le) == Win32Error(HRESULT_from_win32(le))

\* crate::Result: Ok(value) or Err(Error::Unexpected { source_hint, underlying_error }).
Ok(value) ==
    [tag |-> "Ok", val |-> value, source_hint |-> "-", underlying_error |-> Win32Error(0)]

Err(source_hint, underlying_error) ==
    [tag |-> "Err", val |-> 0, source_hint |-> source_hint,
     underlying_error |-> underlying_error]

\* Error::code: the code of the underlying error.
Error_code(e) == e.underlying_error.code

\* One invocation of the wrapped function on a thread whose last-error value
\* is le.
Invoke(function, le) ==
    [ret |-> function.ret, err |-> function.err,
     last_error |-> IF function.sets = Untouched THEN le ELSE function.sets,
     invoked |-> 1]

\* What a mapping did: the Result it returned, the last-error value it left,
\* how many times it invoked the function and the last-error value the
\* function found.
Mapped(result, c, found) ==
    [result |-> result, last_error |-> c.last_error, invoked |-> c.invoked, found |-> found]

MutLastErrKeepsStale(function, source_hint, le) ==
    LET c == Invoke(function, le)
    IN  Mapped(IF c.last_error = 0
               THEN Ok(c.ret)
               ELSE Err(source_hint, Win32Error(HRESULT_from_win32(c.last_error))),
               c, le)

\* map_last_err: SetLastError(0), function(), GetLastError().ok()
map_last_err(function, source_hint, le) ==
    LET cleared == 0
        c == Invoke(function, cleared)
    IN  Mapped(IF c.last_error = 0
               THEN Ok(c.ret)
               ELSE Err(source_hint, Win32Error(HRESULT_from_win32(c.last_error))),
               c, cleared)

MutNonzeroDropsHint(function, source_hint, le) ==
    LET c == Invoke(function, le)
    IN  Mapped(IF c.ret # 0
               THEN Ok(c.ret)
               ELSE Err("-", Win32Error_from_win32(c.last_error)),
               c, le)

\* map_nonzero_u8 .. map_nonzero_isize: NonZero::new(function()).ok_or_else(..)
map_nonzero(function, source_hint, le) ==
    LET c == Invoke(function, le)
    IN  Mapped(IF c.ret # 0
               THEN Ok(c.ret)
               ELSE Err(source_hint, Win32Error_from_win32(c.last_error)),
               c, le)

\* map_bool: function().ok() on a BOOL, true when not 0.
map_bool(function, source_hint, le) ==
    LET c == Invoke(function, le)
    IN  Mapped(IF c.ret # 0
               THEN Ok(Unit)
               ELSE Err(source_hint, Win32Error_from_win32(c.last_error)),
               c, le)

\* map_result: function().map_err(..)
map_result(function, source_hint, le) ==
    LET c == Invoke(function, le)
    IN  Mapped(IF c.err = 0
               THEN Ok(c.ret)
               ELSE Err(source_hint, Win32Error(c.err)),
               c, le)

\* Win32Ptr::is_null
is_null(ptr) == ptr = 0

\* map_ptr
map_ptr(function, source_hint, le) ==
    LET c == Invoke(function, le)
        ptr == c.ret
    IN  Mapped(IF is_null(ptr)
               THEN Err(source_hint, Win32Error_from_win32(c.last_error))
               ELSE Ok(ptr),
               c, le)

\* The record of a mapping call: the mapping, the function and hint it was
\* given, the last-error value before and after the call and what it did.
MapOp(name, function, source_hint, r) ==
    [name |-> name, function |-> function, source_hint |-> source_hint,
     pre_error |-> last_error, post_error |-> r.last_error, result |-> r.result,
     invoked |-> r.invoked, found |-> r.found]

MapInit ==
    /\ last_error = 0
    /\ map_op = [name |-> "-", function |-> [ret |-> 0, err |-> 0, sets |-> Untouched],
                 source_hint |-> "-", pre_error |-> 0, post_error |-> 0, result |-> Ok(Unit),
                 invoked |-> 0, found |-> 0]

\* call!(map_last_err; ..)
MapLastErr ==
    \E function \in Win32Functions, source_hint \in SourceHints :
        LET r == map_last_err(function, source_hint, last_error)
        IN  /\ last_error' = r.last_error
            /\ map_op' = MapOp("map_last_err", function, source_hint, r)
            /\ UNCHANGED <<rt_vars, win_vars, com_vars, game_vars>>

\* call!(map_nonzero_<int>; ..)
MapNonzero ==
    \E function \in Win32Functions, source_hint \in SourceHints :
        LET r == map_nonzero(function, source_hint, last_error)
        IN  /\ last_error' = r.last_error
            /\ map_op' = MapOp("map_nonzero", function, source_hint, r)
            /\ UNCHANGED <<rt_vars, win_vars, com_vars, game_vars>>

\* call!(map_bool; ..)
MapBool ==
    \E function \in Win32Functions, source_hint \in SourceHints :
        LET r == map_bool(function, source_hint, last_error)
        IN  /\ last_error' = r.last_error
            /\ map_op' = MapOp("map_bool", function, source_hint, r)
            /\ UNCHANGED <<rt_vars, win_vars, com_vars, game_vars>>

\* call!(map_result; ..)
MapResult ==
    \E function \in ResultFunctions, source_hint \in SourceHints :
        LET r == map_result(function, source_hint, last_error)
        IN  /\ last_error' = r.last_error
            /\ map_op' = MapOp("map_result", function, source_hint, r)
            /\ UNCHANGED <<rt_vars, win_vars, com_vars, game_vars>>

\* call!(map_ptr; ..)
MapPtr ==
    \E function \in Win32Functions, source_hint \in SourceHints :
        LET r == map_ptr(function, source_hint, last_error)
        IN  /\ last_error' = r.last_error
            /\ map_op' = MapOp("map_ptr", function, source_hint, r)
            /\ UNCHANGED <<rt_vars, win_vars, com_vars, game_vars>>

\* Any other Win32 call made on the thread between two mappings: it leaves
\* some last-error value behind.
OtherWin32Call ==
    /\ \E e \in ErrorCodes : last_error' = e
    /\ last_error' # last_error
    /\ UNCHANGED <<map_op, rt_vars, win_vars, com_vars, game_vars>>

(***************************************************************************)
(* ComLibraryHandle: the per-thread, reference-counted COM initialization  *)
(* (src/com.rs)                                                            *)
(***************************************************************************)

\* Threads that use COM; the cell COM_LIBRARY_HANDLE is thread-local and an
\* Rc never leaves its thread.
Threads == {1, 2}

\* How code outside this crate has initialized COM on a thread before the
\* first acquire: not at all, apartment-threaded, multi-threaded.
ForeignInits == {"none", "STA", "MTA"}

\* CoInitializeEx(None, COINIT_APARTMENTTHREADED) on a thread: S_FALSE when
\* COM is already initialized there, RPC_E_CHANGED_MODE when it is with the
\* other concurrency model, S_OK otherwise; it can also fail for want of
\* resources.  initialized: this crate's own initialization is in force.
CoInitializeEx(foreign_init, initialized) ==
    IF foreign_init = "MTA"
    THEN {"RPC_E_CHANGED_MODE"}
    ELSE {IF foreign_init = "STA" \/ initialized THEN "S_FALSE" ELSE "S_OK", "E_OUTOFMEMORY"}

\* HRESULT::ok: S_OK and S_FALSE are successes.
HRESULT_is_ok(hr) == hr \in {"S_OK", "S_FALSE"}

\* No handle allocation: Weak::new() in the cell, no Rc alive.
NoHandle == [id |-> 0, strong |-> 0]

\* Weak::upgrade(&*cell_ref): Some exactly when the cell points to the
\* allocation that is still alive.
Weak_upgrade(cell, handle) == cell # 0 /\ cell = handle.id /\ handle.strong > 0

\* Result of acquire or of dropping a handle: the thread-local cell and the
\* handle allocation afterwards, the CoInitializeEx and CoUninitialize calls
\* made, whether the CoInitializeEx call succeeded, the id of the handle
\* returned and the panic raised.
ComResult(cell, handle, init_calls, init_ok, uninit_calls, returned, panic) ==
    [cell |-> cell, handle |-> handle, init_calls |-> init_calls, init_ok |-> init_ok,
     uninit_calls |-> uninit_calls, returned |-> returned, panic |-> panic]

MutAcquireAlwaysInitializes(cell, handle, hr, fresh) ==
    IF ~HRESULT_is_ok(hr)
    THEN ComResult(cell, handle, 1, 0, 0, 0, PanicUnwrap)
    ELSE IF Weak_upgrade(cell, handle)
    THEN ComResult(cell, [handle EXCEPT !.strong = @ + 1], 1, 1, 0, handle.id, NoPanic)
    ELSE ComResult(fresh, [id |-> fresh, strong |-> 1], 1, 1, 0, fresh, NoPanic)

\* ComLibraryHandle::acquire; hr is what CoInitializeEx returns if called,
\* fresh the id of the allocation Rc::new makes.
ComLibraryHandle_acquire(cell, handle, hr, fresh) ==
    IF Weak_upgrade(cell, handle)
    THEN ComResult(cell, [handle EXCEPT !.strong = @ + 1], 0, 0, 0, handle.id, NoPanic)
    ELSE IF ~HRESULT_is_ok(hr)
    THEN ComResult(cell, handle, 1, 0, 0, 0, PanicUnwrap)
    ELSE ComResult(fresh, [id |-> fresh, strong |-> 1], 1, 1, 0, fresh, NoPanic)

\* Rc::clone of a handle.
Rc_clone(cell, handle) ==
    ComResult(cell, [handle EXCEPT !.strong = @ + 1], 0, 0, 0, handle.id, NoPanic)

\* Dropping one Rc<ComLibraryHandle>: the last one runs Drop::drop, which
\* calls CoUninitialize; the Weak in the cell stays.
Rc_drop(cell, handle) ==
    IF handle.strong = 1
    THEN ComResult(cell, [handle EXCEPT !.strong = 0], 0, 0, 1, 0, NoPanic)
    ELSE ComResult(cell, [handle EXCEPT !.strong = @ - 1], 0, 0, 0, 0, NoPanic)

\* The record of an operation on a thread: what it found and what it did.
ComOp(name, t, hr, r) ==
    [name |-> name, thread |-> t, hr |-> IF r.init_calls = 0 THEN "-" ELSE hr,
     pre_handle |-> com_handle[t], pre_initialized |-> com_initialized[t],
     init_calls |-> r.init_calls, init_ok |-> r.init_ok, uninit_calls |-> r.uninit_calls,
     returned |-> r.returned, panic |-> r.panic]

ComInit ==
    /\ com_cell = [t \in Threads |-> 0]
    /\ com_handle = [t \in Threads |-> NoHandle]
    /\ com_initialized = [t \in Threads |-> 0]
    /\ com_allocated = [t \in Threads |-> 0]
    /\ com_calls = [t \in Threads |-> [init |-> 0, uninit |-> 0]]
    /\ foreign = [t \in Threads |-> "none"]
    /\ com_op = [name |-> "-", thread |-> 1, hr |-> "-", pre_handle |-> NoHandle,
                 pre_initialized |-> 0, init_calls |-> 0, init_ok |-> 0, uninit_calls |-> 0,
                 returned |-> 0, panic |-> NoPanic]

\* What an operation on thread t does to the thread: com_initialized counts
\* the CoInitializeEx calls that succeeded less the CoUninitialize calls.
ComApply(t, r) ==
    /\ com_cell' = [com_cell EXCEPT ![t] = r.cell]
    /\ com_handle' = [com_handle EXCEPT ![t] = r.handle]
    /\ com_initialized' = [com_initialized EXCEPT ![t] = @ + r.init_ok - r.uninit_calls]
    /\ com_allocated' = [com_allocated EXCEPT ![t] = IF r.handle.id # com_handle[t].id
                                                      THEN @ + 1 ELSE @]
    /\ com_calls' = [com_calls EXCEPT ![t] = [init |-> @.init + r.init_calls,
                                              uninit |-> @.uninit + r.uninit_calls]]
    /\ UNCHANGED foreign

\* ComLibraryHandle::acquire() on thread t; the caller keeps the handle.
Acquire ==
    \E t \in Threads :
        \E hr \in CoInitializeEx(foreign[t], com_initialized[t] > 0) :
            LET r == ComLibraryHandle_acquire(com_cell[t], com_handle[t], hr,
                                              com_allocated[t] + 1)
            IN  /\ com_handle[t].strong < MaxHandles
                /\ com_calls[t].init < MaxInitCalls \/ Weak_upgrade(com_cell[t], com_handle[t])
                /\ ComApply(t, r)
                /\ com_op' = ComOp("acquire", t, hr, r)
                /\ UNCHANGED <<rt_vars, win_vars, map_vars, game_vars>>

\* The holder of a handle clones it.
CloneHandle ==
    \E t \in Threads :
        LET r == Rc_clone(com_cell[t], com_handle[t])
        IN  /\ com_handle[t].strong > 0
            /\ com_handle[t].strong < MaxHandles
            /\ ComApply(t, r)
            /\ com_op' = ComOp("clone", t, "-", r)
            /\ UNCHANGED <<rt_vars, win_vars, map_vars, game_vars>>

\* A holder of a handle drops it.
DropHandle ==
    \E t \in Threads :
        LET r == Rc_drop(com_cell[t], com_handle[t])
        IN  /\ com_handle[t].strong > 0
            /\ ComApply(t, r)
            /\ com_op' = ComOp("drop", t, "-", r)
            /\ UNCHANGED <<rt_vars, win_vars, map_vars, game_vars>>

\* Code outside this crate initializes COM on a thread that it has not
\* initialized yet; asking for the multi-threaded model fails on a thread
\* this crate holds apartment-threaded.
ForeignCoInitialize ==
    \E t \in Threads, mode \in ForeignInits \ {"none"} :
        /\ foreign[t] = "none"
        /\ mode = "MTA" => com_initialized[t] = 0
        /\ foreign' = [foreign EXCEPT ![t] = mode]
        /\ UNCHANGED <<com_cell, com_handle, com_initialized, com_allocated, com_calls,
                       com_op, rt_vars, win_vars, map_vars, game_vars>>

(***************************************************************************)
(* Game: the application object and its message loop (game/src/game.rs)    *)
(***************************************************************************)

\* The messages posted to the thread's queue while the game runs: paint,
\* close, any other message.
GameMsgs == {"WM_PAINT", "WM_CLOSE", "WM_GETMINMAXINFO"}

\* The OS window of a constructed Window: the creation notification has
\* stored the object pointer and installed the steady-state routine.
GameOs == [user_data |-> ObjPtr, wnd_proc |-> "wnd_proc_thunk"]

\* The render_target field as the receiver of a RenderTarget method.
AsRenderTarget(r) == [state |-> r.state, generation |-> r.generation]

\* Game::new, when it returns: the main window exists, the render target was
\* made for its handle and DeviceResources::make has created the brushes (the
\* first make_solid_color_brush created the device surface).
Game_new ==
    LET window == [WindowInner_new("LightMode") EXCEPT !.hwnd = TheHwnd]
        made == RenderTarget_make_solid_color_brush(RenderTarget_new(TheHwnd, "720x640"),
                                                    "red", "ok", "ok", 1)
    IN  [main_window |-> window, render_target |-> AsRenderTarget(made),
         is_render_dirty |-> TRUE, is_shutting_down |-> FALSE]

\* Result of a step of the game: the object afterwards, the panic raised (if
\* any), the platform frame calls issued and whether the frame was lost to a
\* recreate-required error.
GameResult(game, panic, frame_calls, lost) ==
    [game |-> game, panic |-> panic, frame_calls |-> frame_calls, lost |-> lost]

\* Game::update
Game_update(game) == GameResult(game, NoPanic, <<>>, FALSE)

\* Game::draw after begin_draw has returned b: the drawing calls,
\* ctx.end_draw() (which passes the Context's device target to
\* RenderTarget::end_draw) and the render-dirty flag is cleared, whatever
\* end_draw found.
Game_draw_frame(game, b, fres, eres, checks, id) ==
    LET e == RenderTarget_end_draw(AsRenderTarget(b), eres, checks, fres, id + b.calls)
    IN  IF b.panic # NoPanic
        THEN GameResult([game EXCEPT !.render_target = AsRenderTarget(b)],
                        b.panic, b.frame_calls, FALSE)
        ELSE IF e.panic # NoPanic
        THEN GameResult([game EXCEPT !.render_target = AsRenderTarget(e)],
                        e.panic, b.frame_calls \o e.frame_calls, FALSE)
        ELSE GameResult([game EXCEPT !.render_target = AsRenderTarget(e),
                                     !.is_render_dirty = FALSE],
                        NoPanic, b.frame_calls \o e.frame_calls, eres = "recreate")

\* Game::draw: nothing when the render-dirty flag is clear; otherwise
\* begin_draw and the rest of the frame.  fres and eres are the outcomes of
\* the factory and of EndDraw.
Game_draw(game, fres, eres, checks, id) ==
    IF ~game.is_render_dirty
    THEN GameResult(game, NoPanic, <<>>, FALSE)
    ELSE CHOOSE d \in {Game_draw_frame(game, b, fres, eres, checks, id) :
                          b \in {RenderTarget_begin_draw(game.render_target, fres, id)}} : TRUE

\* GetMessageW(&mut msg, None, 0, 0): the oldest posted message, or, with the
\* quit flag set and nothing posted, the quit message and the value 0; with
\* nothing to hand out the call waits.
GetMessageW(q, quit) ==
    IF q # <<>>
    THEN [ret |-> 1, msg |-> Head(q), queue |-> Tail(q)]
    ELSE [ret |-> 0, msg |-> "WM_QUIT", queue |-> q]

\* DispatchMessageW(&msg): the OS calls the window procedure of the main
\* window; a message it forwards is handled by DefWindowProcW.
DispatchMessageW(game, umsg) ==
    LET r == wnd_proc_thunk(game.main_window, GameOs, umsg, FALSE)
    IN  [game EXCEPT !.main_window = r.this]

MutCloseOnlyPostsQuit(game) ==
    LET c == clear_close_request(game.main_window)
    IN  [game |-> [game EXCEPT !.main_window = c.this], ret |-> c.ret, quit |-> c.ret]

\* Game::run, the close check: when clear_close_request returns true, the
\* quit message is posted and is_shutting_down is set.
Game_run_close_check(game) ==
    LET c == clear_close_request(game.main_window)
    IN  IF c.ret
        THEN [game |-> [game EXCEPT !.main_window = c.this, !.is_shutting_down = TRUE],
              ret |-> TRUE, quit |-> TRUE]
        ELSE [game |-> [game EXCEPT !.main_window = c.this], ret |-> FALSE, quit |-> FALSE]

\* The record of a step of Game::run: its name, whether a clear_close_request
\* had returned true before it, the value it returned and the platform frame
\* calls it issued.
GameOp(name, ret, frame_calls) ==
    [name |-> name, pre_close_seen |-> close_seen, ret |-> ret, frame_calls |-> frame_calls]

\* Game::new has returned and Game::run is at its first GetMessageW.
GameInit ==
    /\ g_game = Game_new
    /\ g_pc = "GetMessageW"
    /\ g_queue = <<>>
    /\ g_msg = "-"
    /\ quit_posted = FALSE
    /\ close_seen = FALSE
    /\ lost_frame = FALSE
    /\ game_op = [name |-> "new", pre_close_seen |-> FALSE, ret |-> 0, frame_calls |-> <<>>]

\* The system posts a message to the thread's queue.
PostMessage ==
    \E m \in GameMsgs :
        /\ g_pc \notin {"done", "panicked"}
        /\ Len(g_queue) < MaxQueue
        /\ g_queue' = Append(g_queue, m)
        /\ UNCHANGED <<g_game, g_pc, g_msg, quit_posted, close_seen, lost_frame, game_op,
                       rt_vars, win_vars, lib_vars>>

\* while GetMessageW(..).as_bool(): the loop ends when the value is 0.
RunGetMessage ==
    LET r == GetMessageW(g_queue, quit_posted)
    IN  /\ g_pc = "GetMessageW"
        /\ g_queue # <<>> \/ quit_posted
        /\ g_queue' = r.queue
        /\ g_msg' = r.msg
        /\ g_pc' = IF r.ret = 0 THEN "done" ELSE "DispatchMessageW"
        /\ game_op' = GameOp("GetMessageW", r.ret, <<>>)
        /\ UNCHANGED <<g_game, quit_posted, close_seen, lost_frame,
                       rt_vars, win_vars, lib_vars>>

\* TranslateMessage(&msg); DispatchMessageW(&msg)
RunDispatch ==
    /\ g_pc = "DispatchMessageW"
    /\ g_game' = DispatchMessageW(g_game, g_msg)
    /\ g_pc' = "clear_close_request"
    /\ game_op' = GameOp("DispatchMessageW", 0, <<>>)
    /\ UNCHANGED <<g_queue, g_msg, quit_posted, close_seen, lost_frame,
                   rt_vars, win_vars, lib_vars>>

\* if self.main_window.clear_close_request() { PostQuitMessage(0); .. }
RunCloseCheck ==
    LET c == Game_run_close_check(g_game)
    IN  /\ g_pc = "clear_close_request"
        /\ g_game' = c.game
        /\ quit_posted' = (quit_posted \/ c.quit)
        /\ close_seen' = (close_seen \/ c.ret)
        /\ g_pc' = IF c.game.is_shutting_down THEN "GetMessageW" ELSE "update"
        /\ game_op' = GameOp("clear_close_request", IF c.ret THEN 1 ELSE 0, <<>>)
        /\ UNCHANGED <<g_queue, g_msg, lost_frame, rt_vars, win_vars, lib_vars>>

\* self.update()
RunUpdate ==
    LET u == Game_update(g_game)
    IN  /\ g_pc = "update"
        /\ g_game' = u.game
        /\ g_pc' = "draw"
        /\ game_op' = GameOp("update", 0, u.frame_calls)
        /\ UNCHANGED <<g_queue, g_msg, quit_posted, close_seen, lost_frame,
                       rt_vars, win_vars, lib_vars>>

\* self.draw(); a frame lost to recreate-required stays lost until a later
\* frame is begun and ended.
RunDraw ==
    \E fres \in FactoryResults, eres \in EndDrawResults :
        LET d == Game_draw(g_game, fres, eres, overflow_checks, 2)
            drawn == d.frame_calls = <<"BeginDraw", "EndDraw">>
        IN  /\ g_pc = "draw"
            /\ g_game' = d.game
            /\ g_pc' = IF d.panic # NoPanic THEN "panicked" ELSE "GetMessageW"
            /\ lost_frame' = IF drawn /\ d.panic = NoPanic THEN d.lost ELSE lost_frame
            /\ game_op' = GameOp("draw", 0, d.frame_calls)
            /\ UNCHANGED <<g_queue, g_msg, quit_posted, close_seen, rt_vars, win_vars, lib_vars>>

(***************************************************************************)
(* Specifications                                                          *)
(***************************************************************************)

Init == RtInit /\ WinInit /\ MapInit /\ ComInit /\ GameInit

\* The operations of the render target.
RtNext ==
    \/ BeginDraw
    \/ EndDraw
    \/ MakeSolidColorBrush
    \/ Generation
    \/ DropBrush

\* The operations of the window object.
WinNext ==
    \/ HandleMessage
    \/ DefWindowProcReturns
    \/ NcCreate
    \/ NcDestroy
    \/ CreateWindowExWReturns
    \/ Configure
    \/ ClearCloseRequest
    \/ ClearRedrawRequest
    \/ Hwnd
    \/ SetTheme
    \/ Destroy
    \/ CloneRef
    \/ DropRef
    \/ Keyboard
    \/ DropKeyboardGuard

\* The mappings, applied on one thread.
MapNext ==
    \/ MapLastErr
    \/ MapNonzero
    \/ MapBool
    \/ MapResult
    \/ MapPtr
    \/ OtherWin32Call

\* The operations on ComLibraryHandle, on every thread.
ComNext ==
    \/ Acquire
    \/ CloneHandle
    \/ DropHandle
    \/ ForeignCoInitialize

\* Game::run and the system that posts messages to its thread.
GameNext ==
    \/ PostMessage
    \/ RunGetMessage
    \/ RunDispatch
    \/ RunCloseCheck
    \/ RunUpdate
    \/ RunDraw

Next == RtNext \/ WinNext \/ MapNext \/ ComNext \/ GameNext

Spec == Init /\ [][Next]_vars

\* The render target, the window object, the mappings, the COM handle and the
\* game loop (which has a window and a render target of its own) share no
\* state: each is checked on its own, the others left as constructed.
RtSpec == Init /\ [][RtNext]_vars

WinSpec == Init /\ [][WinNext]_vars

MapSpec == Init /\ [][MapNext]_vars

ComSpec == Init /\ [][ComNext]_vars

GameSpec == Init /\ [][GameNext]_vars

\* Game::run as a running program: a statement that can be executed is
\* executed (GetMessageW waits only while there is nothing to hand out), and
\* the system keeps posting messages while the queue has room.
GameLiveSpec ==
    /\ GameSpec
    /\ WF_vars(RunGetMessage \/ RunDispatch \/ RunCloseCheck \/ RunUpdate \/ RunDraw)
    /\ WF_vars(PostMessage)

(***************************************************************************)
(* Properties of the render target                                         *)
(***************************************************************************)

\* C1: as long as every operation has returned (none has ended in a fatal
\* error) the state observed after an operation is never Poisoned; sequences
\* that alternate begin_draw and end_draw, with end_draw reporting success
\* or recreate-required, are among them.
C1_NeverPoisonedWhileOperationsReturn ==
    ~failed => state.tag # "Poisoned"

\* Two device losses survived in contract: frames begun and ended, none failed.
C1_Witness ==
    /\ ~failed
    /\ rt_op.name = "end_draw"
    /\ rt_op.arg = "recreate"
    /\ rt_op.pre = "Drawing"
    /\ losses = 2
    /\ state.tag = "RequiresRecreation"

\* C2: begin_draw called in state Drawing always ends in the double-draw
\* panic and returns no second drawing context, whatever the generation.
C2_DoubleBeginDrawIsFatal ==
    (rt_op.name = "begin_draw" /\ rt_op.pre = "Drawing") =>
        /\ rt_op.panic = PanicMidDraw
        /\ rt_op.target = NoTarget.id
        /\ contexts = rt_op.pre_ctx

\* A second begin_draw after two device losses.
C2_Witness ==
    /\ rt_op.name = "begin_draw"
    /\ rt_op.pre = "Drawing"
    /\ rt_op.pre_gen = 2
    /\ rt_op.panic = PanicMidDraw

\* C3: end_draw called in state Drawing with the platform reporting
\* recreate-required returns normally, leaves generation at its previous value
\* plus exactly 1 and the state RequiresRecreation.
C3_RecreateBumpsGenerationByOne ==
    (rt_op.name = "end_draw" /\ rt_op.arg = "recreate" /\ rt_op.pre = "Drawing") =>
        /\ rt_op.panic = NoPanic
        /\ generation = rt_op.pre_gen + 1
        /\ state.tag = "RequiresRecreation"

\* C4: a begin_draw that finds RequiresRecreation (the first one after a
\* device loss) passes RequiresRecreation -> Created -> Drawing within the one
\* call, asks the factory exactly once and returns in state Drawing; only the
\* factory's own failure stops it.
C4_BeginDrawRebuildsInOneCall ==
    (rt_op.name = "begin_draw" /\ rt_op.pre = "RequiresRecreation") =>
        \/ /\ rt_op.panic = NoPanic
           /\ rt_op.path = <<"RequiresRecreation", "Created", "Drawing">>
           /\ rt_op.calls = 1
           /\ rt_op.target = state.target.id
           /\ state.tag = "Drawing"
        \/ /\ rt_op.panic = PanicFactory
           /\ rt_op.calls = 1

\* The first begin_draw after a device loss has returned.
C4_Witness ==
    /\ rt_op.name = "begin_draw"
    /\ rt_op.pre = "RequiresRecreation"
    /\ rt_op.pre_gen = 1
    /\ losses = 1
    /\ rt_op.panic = NoPanic
    /\ state.tag = "Drawing"

\* C5: an end_draw in state Drawing (a frame begun by begin_draw) that reports
\* no platform error ends in Created with generation unchanged; before the
\* first device loss the generation is 0 before and after the frame.
C5_SuccessfulFrameKeepsGeneration ==
    (rt_op.name = "end_draw" /\ rt_op.arg = "ok" /\ rt_op.pre = "Drawing") =>
        /\ rt_op.panic = NoPanic
        /\ state.tag = "Created"
        /\ generation = rt_op.pre_gen
        /\ losses = 0 => (rt_op.pre_gen = 0 /\ generation = 0)

\* The first frame of a fresh render target has ended without error.
C5_Witness ==
    /\ rt_op.name = "end_draw"
    /\ rt_op.arg = "ok"
    /\ rt_op.pre = "Drawing"
    /\ losses = 0
    /\ state.tag = "Created"
    /\ ~failed

\* C6: generation never decreases; the only operation that changes it is an
\* end_draw that leaves Drawing because of recreate-required, which raises it
\* by exactly 1; an operation that fails fatally leaves it unchanged.
C6_GenerationChangesOnlyOnDeviceLoss ==
    /\ generation >= rt_op.pre_gen
    /\ generation # rt_op.pre_gen =>
          /\ rt_op.name = "end_draw"
          /\ rt_op.arg = "recreate"
          /\ rt_op.pre = "Drawing"
          /\ state.tag = "RequiresRecreation"
          /\ generation = rt_op.pre_gen + 1
    /\ rt_op.panic # NoPanic => generation = rt_op.pre_gen

\* C7: make_solid_color_brush returns a brush stamped with the value
\* generation() returns at the call, whether it found RequiresRecreation (and
\* rebuilt the surface) or Created.
C7_BrushCarriesCurrentGeneration ==
    (rt_op.name = "make_solid_color_brush" /\ rt_op.panic = NoPanic) =>
        /\ rt_op.brush.generation = rt_op.pre_gen
        /\ rt_op.brush.generation = RenderTarget_generation(Self)
        /\ rt_op.brush.device_brush = state.target.id
        /\ rt_op.pre \in {"RequiresRecreation", "Created", "Drawing"}

\* A brush made right after a device loss, the call rebuilding the surface.
C7_Witness ==
    /\ rt_op.name = "make_solid_color_brush"
    /\ rt_op.panic = NoPanic
    /\ rt_op.pre = "RequiresRecreation"
    /\ rt_op.calls = 1
    /\ rt_op.brush.generation = 2

\* The device target a brush was created on has been lost.
Stale(b) ==
    \/ state.tag = "RequiresRecreation"
    \/ state.tag \in {"Created", "Drawing"} /\ b.device_brush # state.target.id

\* C8: a brush created before a device loss carries a generation strictly
\* less than generation() after it, a brush created on the current device
\* target carries the current generation, and two brushes created on opposite
\* sides of a device loss (on different device targets) never carry the same
\* stamp.
C8_StampsNeverReused ==
    /\ \A b \in brushes : Stale(b) => b.generation < generation
    /\ \A b \in brushes :
          (state.tag \in {"Created", "Drawing"} /\ b.device_brush = state.target.id)
              => b.generation = generation
    /\ \A b1, b2 \in brushes :
          b1.device_brush # b2.device_brush => b1.generation # b2.generation

\* C9 as stated: the number of contexts returned and not finalized is 0 or 1,
\* and it is 1 exactly when the state is Drawing.
C9_OneContextExactlyWhenDrawing ==
    /\ contexts \in {0, 1}
    /\ contexts = 1 <=> state.tag = "Drawing"

\* C9 (amended): the number of contexts returned by begin_draw and not
\* finalized by end_draw is 0 or 1; it is 1 whenever the state is Drawing, and
\* when it is 1 the state is Drawing or, after a begin_draw rejected as a
\* double draw, Poisoned.
C9_AtMostOneContext ==
    /\ contexts \in {0, 1}
    /\ state.tag = "Drawing" => contexts = 1
    /\ contexts = 1 => state.tag \in {"Drawing", "Poisoned"}
    /\ (contexts = 1 /\ state.tag = "Poisoned") => failed

\* A frame in flight after a device loss: one context, state Drawing.
C9_Witness ==
    /\ contexts = 1
    /\ state.tag = "Drawing"
    /\ losses = 1
    /\ rt_op.name = "begin_draw"

\* C21: once the state is Poisoned, every later begin_draw, end_draw and
\* make_solid_color_brush ends in a fatal error without asking the factory,
\* and the state is Poisoned afterwards: no operation leaves Poisoned.
C21_PoisonedIsAbsorbing ==
    rt_op.pre = "Poisoned" =>
        /\ state.tag = "Poisoned"
        /\ rt_op.calls = 0
        /\ rt_op.name \in {"begin_draw", "end_draw", "make_solid_color_brush"} =>
              rt_op.panic # NoPanic

\* An end_draw whose platform call succeeded, rejected in state Poisoned.
C21_Witness ==
    /\ rt_op.pre = "Poisoned"
    /\ rt_op.name = "end_draw"
    /\ rt_op.arg = "ok"
    /\ rt_op.panic = PanicPoisoned
    /\ state.tag = "Poisoned"

\* C22: when the platform end-frame call fails with an error other than
\* recreate-required, end_draw is fatal: the end-frame call was issued once
\* (no retry), no transition was made, the factory was not asked, and the
\* state (Drawing, for a frame in flight) and generation are what the call
\* found.
C22_UnexpectedEndDrawErrorIsFatal ==
    (rt_op.name = "end_draw" /\ rt_op.arg = "other") =>
        /\ rt_op.panic = PanicEndDraw
        /\ rt_op.frame_calls = <<"EndDraw">>
        /\ rt_op.path = <<rt_op.pre>>
        /\ rt_op.calls = 0
        /\ state = rt_op.pre_state
        /\ generation = rt_op.pre_gen
        /\ rt_op.pre = "Drawing" => state.tag = "Drawing"

\* The end-frame call of a frame in flight failed with an unexpected error.
C22_Witness ==
    /\ rt_op.name = "end_draw"
    /\ rt_op.arg = "other"
    /\ rt_op.pre = "Drawing"
    /\ rt_op.pre_open = 1
    /\ rt_op.panic = PanicEndDraw
    /\ state.tag = "Drawing"

\* C23: when the factory fails to create the device surface in a begin_draw
\* or make_solid_color_brush that found RequiresRecreation, the operation is
\* fatal, returns nothing, issues no begin-frame call and leaves the state
\* Poisoned with generation unchanged.
C23_FactoryFailurePoisons ==
    (/\ rt_op.name \in {"begin_draw", "make_solid_color_brush"}
     /\ rt_op.pre = "RequiresRecreation"
     /\ rt_op.factory = "err") =>
        /\ rt_op.panic = PanicFactory
        /\ rt_op.calls = 1
        /\ state.tag = "Poisoned"
        /\ generation = rt_op.pre_gen
        /\ rt_op.target = NoTarget.id
        /\ rt_op.brush = NoBrush
        /\ rt_op.frame_calls = <<>>

\* The factory failed in the begin_draw that follows a device loss.
C23_Witness ==
    /\ rt_op.name = "begin_draw"
    /\ rt_op.pre = "RequiresRecreation"
    /\ rt_op.factory = "err"
    /\ losses = 1
    /\ generation = 1
    /\ state.tag = "Poisoned"

\* The four transitions of the lifecycle.
Transitions ==
    {<<"RequiresRecreation", "Created">>, <<"Created", "Drawing">>,
     <<"Drawing", "Created">>, <<"Drawing", "RequiresRecreation">>}

\* C28: the State values an operation that returned passed through lead from
\* the state it found to the state it left by the four transitions only; the
\* step RequiresRecreation -> Created is made by one successful factory call
\* (so RequiresRecreation reaches Drawing only through Created, and Created
\* never goes to RequiresRecreation); end_draw in a state other than Drawing
\* is fatal.
C28_OnlyFourTransitions ==
    /\ (rt_op.panic = NoPanic /\ rt_op.path # <<>>) =>
          /\ rt_op.path[1] = rt_op.pre
          /\ rt_op.path[Len(rt_op.path)] = state.tag
          /\ \A i \in 1..(Len(rt_op.path) - 1) :
                /\ <<rt_op.path[i], rt_op.path[i + 1]>> \in Transitions
                /\ rt_op.path[i] = "RequiresRecreation" =>
                      /\ rt_op.calls = 1
                      /\ rt_op.factory = "ok"
                      /\ state.target.id = factory_calls
          /\ (rt_op.pre = "RequiresRecreation" /\ state.tag = "Drawing") =>
                rt_op.path = <<"RequiresRecreation", "Created", "Drawing">>
    /\ (rt_op.name = "end_draw" /\ rt_op.pre # "Drawing") => rt_op.panic # NoPanic

\* The second device loss: every one of the four transitions has been made.
C28_Witness ==
    /\ rt_op.name = "end_draw"
    /\ rt_op.panic = NoPanic
    /\ rt_op.path = <<"Drawing", "RequiresRecreation">>
    /\ losses = 2
    /\ factory_calls = 2

\* C29: the platform begin-frame and end-frame calls alternate, starting with
\* begin-frame.  begin_draw issues begin-frame exactly when it returns, with
\* the state Drawing and no frame open; a begin_draw rejected as a double draw
\* issues none.  The end_draw of a Context (each Context is passed to
\* end_draw once) issues end-frame once, on an open frame.  At most one
\* Context is waiting for its end_draw, and a frame is open exactly then.
C29_FrameCallsAlternate ==
    /\ rt_op.name = "begin_draw" =>
          /\ rt_op.frame_calls = IF rt_op.panic = NoPanic THEN <<"BeginDraw">> ELSE <<>>
          /\ rt_op.frame_calls # <<>> =>
                /\ ~rt_op.pre_in_frame
                /\ state.tag = "Drawing"
                /\ rt_op.path[Len(rt_op.path)] = "Drawing"
          /\ rt_op.pre = "Drawing" => rt_op.frame_calls = <<>>
    /\ (rt_op.name = "end_draw" /\ rt_op.pre_open > 0) =>
          /\ rt_op.frame_calls = <<"EndDraw">>
          /\ rt_op.pre_in_frame
    /\ open_contexts \in {0, 1}
    /\ in_frame <=> open_contexts = 1

\* The frame after a device loss has been ended: two frames, each one
\* begin-frame followed by one end-frame.
C29_Witness ==
    /\ rt_op.name = "end_draw"
    /\ rt_op.pre_open = 1
    /\ rt_op.pre_in_frame
    /\ rt_op.frame_calls = <<"EndDraw">>
    /\ losses = 1
    /\ factory_calls = 2
    /\ ~in_frame
    /\ ~failed

\* C30: in every state other than Poisoned the Inner is the one built at
\* construction (factory reference, window handle, size), the device surface
\* held was built for that handle and size, and every request made to the
\* factory, the first one and every rebuild, named that handle and size.
C30_InnerCarriedUnchanged ==
    /\ state.tag # "Poisoned" => state.inner = Inner(new_args.hwnd, new_args.size)
    /\ state.tag \in {"Created", "Drawing"} =>
          /\ state.target.hwnd = new_args.hwnd
          /\ state.target.size = new_args.size
    /\ factory_requests \subseteq {new_args}

\* The surface was rebuilt after a device loss, for the second handle.
C30_Witness ==
    /\ rt_op.calls = 1
    /\ rt_op.factory = "ok"
    /\ losses = 1
    /\ factory_calls = 2
    /\ new_args.hwnd = 2
    /\ state.tag = "Drawing"
    /\ state.target.id = 2
    /\ factory_requests = {new_args}

\* C31: make_solid_color_brush called in RequiresRecreation calls the factory
\* once and, when the factory delivers, leaves the state Created with the new
\* device target; called in Created (or Drawing) it leaves the state as it
\* found it and does not call the factory.  In no state does it change the
\* generation, issue a platform frame call or change the number of Contexts.
\* A failure of the platform brush-creation call is fatal, returns no brush
\* and leaves the state the one device_target left, never Poisoned.
C31_BrushCreationEffects ==
    rt_op.name = "make_solid_color_brush" =>
        /\ generation = rt_op.pre_gen
        /\ rt_op.frame_calls = <<>>
        /\ in_frame = rt_op.pre_in_frame
        /\ contexts = rt_op.pre_ctx
        /\ open_contexts = rt_op.pre_open
        /\ rt_op.pre = "RequiresRecreation" =>
              /\ rt_op.calls = 1
              /\ rt_op.factory = "ok" =>
                    state = Created(rt_op.pre_state.inner,
                                    make_device_render_target(rt_op.pre_state.inner.hwnd,
                                                              rt_op.pre_state.inner.size,
                                                              factory_calls))
        /\ rt_op.pre \in {"Created", "Drawing"} =>
              /\ rt_op.calls = 0
              /\ state = rt_op.pre_state
        /\ rt_op.brush_res = "err" =>
              /\ rt_op.panic = PanicBrush
              /\ rt_op.brush = NoBrush
              /\ state.tag # "Poisoned"
        /\ rt_op.panic = PanicBrush => rt_op.brush_res = "err"
        /\ rt_op.brush_res = "ok" =>
              /\ rt_op.panic = NoPanic
              /\ rt_op.brush.device_brush = state.target.id

\* The first call on a new render target creates the device surface, then the
\* platform refuses the brush: the call is fatal and the state is Created.
C31_Witness ==
    /\ rt_op.name = "make_solid_color_brush"
    /\ rt_op.pre = "RequiresRecreation"
    /\ rt_op.calls = 1
    /\ rt_op.factory = "ok"
    /\ rt_op.brush_res = "err"
    /\ rt_op.panic = PanicBrush
    /\ state.tag = "Created"
    /\ generation = 0

\* C32: generation() is a pure read: it returns the counter and leaves the
\* state, the counter, the factory and the frame as it found them, also when
\* the state is RequiresRecreation.  An operation leaves a state it found
\* RequiresRecreation as Created or Drawing only if it is begin_draw or
\* make_solid_color_brush, and these two do so whenever the factory delivers;
\* the only other operation that calls the factory is an end_draw that finds
\* RequiresRecreation, which is fatal and leaves the state Poisoned.
C32_GenerationIsPureRead ==
    /\ rt_op.name = "generation" =>
          /\ rt_op.panic = NoPanic
          /\ rt_op.ret = rt_op.pre_gen
          /\ generation = rt_op.pre_gen
          /\ state = rt_op.pre_state
          /\ rt_op.calls = 0
          /\ rt_op.path = <<rt_op.pre>>
          /\ rt_op.frame_calls = <<>>
          /\ in_frame = rt_op.pre_in_frame
    /\ (rt_op.pre = "RequiresRecreation" /\ state.tag \in {"Created", "Drawing"}) =>
          /\ rt_op.name \in {"begin_draw", "make_solid_color_brush"}
          /\ rt_op.calls = 1
    /\ (rt_op.name \in {"begin_draw", "make_solid_color_brush"}
          /\ rt_op.pre = "RequiresRecreation" /\ rt_op.factory = "ok") =>
          /\ Len(rt_op.path) >= 2
          /\ rt_op.path[2] = "Created"
          /\ state.tag \in {"Created", "Drawing"}
    /\ (rt_op.calls > 0 /\ rt_op.name \notin {"begin_draw", "make_solid_color_brush"}) =>
          /\ rt_op.name = "end_draw"
          /\ rt_op.pre = "RequiresRecreation"
          /\ rt_op.panic # NoPanic
          /\ state.tag = "Poisoned"

\* generation() read after a device loss, before the surface is rebuilt: it
\* returns 1 and the state is still RequiresRecreation.
C32_Witness ==
    /\ rt_op.name = "generation"
    /\ rt_op.pre = "RequiresRecreation"
    /\ state.tag = "RequiresRecreation"
    /\ rt_op.ret = 1
    /\ losses = 1
    /\ factory_calls = 1

\* C33: device surfaces are created lazily and only when needed: construction
\* calls the factory zero times; an operation calls the factory only if it
\* finds the state RequiresRecreation, and then once; a frame that ends
\* successfully keeps its device surface, which the next begin_draw hands out
\* without a factory call; and the number of factory calls never exceeds
\* generation + 1.
C33_FactoryCalledLazily ==
    /\ rt_op.name = "new" => factory_calls = 0
    /\ rt_op.calls \in {0, 1}
    /\ rt_op.calls = 1 => rt_op.pre = "RequiresRecreation"
    /\ (rt_op.name = "end_draw" /\ rt_op.arg = "ok" /\ rt_op.panic = NoPanic) =>
          /\ rt_op.calls = 0
          /\ state = Created(rt_op.pre_state.inner, rt_op.pre_state.target)
    /\ (rt_op.name = "begin_draw" /\ rt_op.pre = "Created") =>
          /\ rt_op.calls = 0
          /\ rt_op.panic = NoPanic
          /\ rt_op.target = rt_op.pre_state.target.id
    /\ factory_calls <= generation + 1
(***************************************************************************)
(* Properties of the window object                                         *)
(***************************************************************************)

\* C10: clear_close_request returns true exactly when a close notification
\* has been handled since the previous clear_close_request (or since
\* construction), and leaves the flag cleared.
C10_ClearCloseRequestIsEdgeTriggered ==
    (win_op.name = "clear_close_request") =>
        /\ win_op.ret = (win_op.closes > 0)
        /\ close_request = FALSE
        /\ closes_pending = 0

\* A clear_close_request that returned true after one close notification.
C10_Witness ==
    /\ win_op.name = "clear_close_request"
    /\ win_op.ret = TRUE
    /\ win_op.closes = 1

\* The last operation delivered the destruction notification to the window
\* procedure: sent by the OS, or by the DestroyWindow call of destroy().
DestructionDelivered ==
    \/ win_op.arg = WM_NCDESTROY
    \/ win_op.name = "destroy" /\ win_op.arg = "ok" /\ win_op.os_calls = 1

C13_ObjectOutlivesHandler ==
    /\ ~win_op.uaf
    /\ (win_op.name = "wnd_proc_thunk" /\ win_op.pre.user_data # NullPtr) =>
          win_op.pre.strong >= 1
    /\ (win_op.name = "wnd_proc_thunk" /\ win_op.arg # WM_NCDESTROY
          /\ win_op.panic = NoPanic) =>
          strong = win_op.pre.strong
    /\ win_op.name = "DefWindowProcW" => strong = win_op.pre.strong
    /\ \A i \in 1..Len(stack) : stack[i].strong = strong - (IF blocked THEN 1 ELSE 0)

\* The destruction notification of a window whose object the application no
\* longer holds: the reference dropped by the handler was the last other one.
C13_Witness ==
    /\ win_op.name = "wnd_proc_thunk"
    /\ win_op.arg = WM_NCDESTROY
    /\ win_op.panic = NoPanic
    /\ win_op.pre.app_refs = 0
    /\ win_op.pre.strong = 1
    /\ win_op.released = 1
    /\ ~win_op.uaf
    /\ strong = 0

\* C14: the strong reference turned into a raw pointer at the call of
\* CreateWindowExW is released exactly once for every outcome: never twice,
\* and once the constructor has returned and no OS window is left (creation
\* failed, or the window was destroyed) it has been released, so that an
\* object the application no longer holds is freed.
C14_RawReferenceReleasedExactlyOnce ==
    /\ releases <= 1
    /\ (pc \in {"done", "err"} /\ os_window \in {"none", "destroyed"}) =>
          /\ releases = 1
          /\ user_data = NullPtr
          /\ app_refs = 0 => strong = 0

IsWndProc == win_op.name \in {"wnd_proc_setup", "wnd_proc_thunk"}

\* C16: a paint notification sets redraw_request and leaves close_request
\* as it was; a close notification sets close_request and leaves
\* redraw_request as it was; every other message that the input adapter does
\* not recognise changes neither flag; clear_close_request and
\* clear_redraw_request each clear their own flag and leave the other.
C16_FlagsChangeOnlyByTheirOwnMessage ==
    /\ (IsWndProc /\ win_op.arg = "WM_PAINT") =>
          (redraw_request /\ close_request = win_op.pre.close_request)
    /\ (IsWndProc /\ win_op.arg = "WM_CLOSE") =>
          (close_request /\ redraw_request = win_op.pre.redraw_request)
    /\ (IsWndProc /\ win_op.arg \notin {"WM_PAINT", "WM_CLOSE"}
                  /\ ~KbdAdapter_handles_msg(win_op.arg)) =>
          /\ close_request = win_op.pre.close_request
          /\ redraw_request = win_op.pre.redraw_request
    /\ win_op.name = "clear_close_request" =>
          (~close_request /\ redraw_request = win_op.pre.redraw_request)
    /\ win_op.name = "clear_redraw_request" =>
          (~redraw_request /\ close_request = win_op.pre.close_request)

\* clear_close_request on a window with both requests pending: the redraw
\* request stays.
C16_Witness ==
    /\ win_op.name = "clear_close_request"
    /\ win_op.pre.close_request
    /\ win_op.pre.redraw_request
    /\ win_op.paints = 1
    /\ ~close_request
    /\ redraw_request

\* C17: wnd_proc_setup forwards every message it receives to
\* DefWindowProcW; on the creation notification, and on no other message, it
\* stores the object pointer in the user-data slot and installs
\* wnd_proc_thunk; it receives no message after that one: every later
\* message of the window is delivered to wnd_proc_thunk.
C17_SetupRunsUntilCreationNotification ==
    /\ win_op.name = "wnd_proc_setup" =>
          /\ win_op.forwarded
          /\ win_op.lresult = "DefWindowProcW"
          /\ win_op.pre.os_window = "none"
          /\ win_op.pre.user_data = NullPtr
          /\ win_op.arg = WM_NCCREATE => (user_data = ObjPtr /\ wnd_proc = "wnd_proc_thunk")
          /\ win_op.arg # WM_NCCREATE => (user_data = NullPtr /\ wnd_proc = "wnd_proc_setup")
    /\ (IsWndProc /\ win_op.pre.os_window # "none") => win_op.name = "wnd_proc_thunk"
    /\ os_window # "none" => wnd_proc = "wnd_proc_thunk"

\* The first message after the creation notification, still inside
\* CreateWindowExW, has gone to wnd_proc_thunk.
C17_Witness ==
    /\ win_op.name = "wnd_proc_thunk"
    /\ win_op.arg = "WM_GETMINMAXINFO"
    /\ win_op.pre.os_window = "creating"
    /\ win_op.pre.user_data = ObjPtr
    /\ pc = "CreateWindowExW"
    /\ wnd_proc = "wnd_proc_thunk"

\* C18: handling a close notification sets close_request and nothing else:
\* the message is consumed (DefWindowProcW, which would destroy the window,
\* is not called), the OS window, the handle field, the user-data slot, the
\* window procedure and the strong count are as before, and nothing is
\* released.
C18_CloseIsOnlyARequest ==
    (IsWndProc /\ win_op.arg = "WM_CLOSE") =>
        /\ close_request
        /\ ~win_op.forwarded
        /\ os_window = win_op.pre.os_window
        /\ hwnd = win_op.pre.hwnd
        /\ user_data = win_op.pre.user_data
        /\ wnd_proc = win_op.pre.wnd_proc
        /\ strong = win_op.pre.strong
        /\ app_refs = win_op.pre.app_refs
        /\ releases = win_op.pre.released
        /\ redraw_request = win_op.pre.redraw_request

\* A second close notification handled while the application holds the
\* object: the window exists and the handle is still there.
C18_Witness ==
    /\ win_op.name = "wnd_proc_thunk"
    /\ win_op.arg = "WM_CLOSE"
    /\ closes_pending = 2
    /\ pc = "done"
    /\ app_refs = 1
    /\ os_window = "exists"
    /\ hwnd = TheHwnd
    /\ user_data = ObjPtr
    /\ strong = 2

\* C19: the handle field is non-null whenever code can reach the object and
\* the destruction notification has not been handled: in the constructor
\* after CreateWindowExW, in application code holding the constructed
\* object, and in handle_message for every message dispatched to the
\* object, those sent during window creation included.
C19_HandleNonNullWhileReachable ==
    /\ (pc \in {"configure", "done"} /\ os_window # "destroyed") => hwnd # NullHwnd
    /\ (win_op.name = "wnd_proc_thunk" /\ win_op.pre.user_data # NullPtr) =>
          win_op.pre.hwnd # NullHwnd

\* C20: once the destruction notification has cleared the handle field,
\* hwnd(), set_theme() and destroy() end in the null-handle panic and make
\* no OS call; no OS call is ever given a null handle.
C20_NullHandleIsFatal ==
    /\ (win_op.name \in {"hwnd", "set_theme", "destroy"} /\ win_op.pre.hwnd = NullHwnd) =>
          /\ win_op.pre.os_window = "destroyed"
          /\ win_op.panic = PanicNullHandle
          /\ win_op.os_calls = 0
          /\ win_op.passed = NullHwnd
    /\ win_op.os_calls > 0 => win_op.passed # NullHwnd

\* set_theme on an object whose window has been destroyed.
C20_Witness ==
    /\ win_op.name = "set_theme"
    /\ win_op.pre.hwnd = NullHwnd
    /\ win_op.pre.os_window = "destroyed"
    /\ win_op.pre.released = 1
    /\ win_op.panic = PanicNullHandle
    /\ app_refs >= 1

\* The non-drawing operations that call the platform: window creation
\* (CreateWindowExW, then sizing and theming in the rest of new), set_theme
\* and destroy.
NonDrawingOps == {"CreateWindowExW", "configure", "set_theme", "destroy"}

\* C24: an unexpected platform error in a non-drawing operation (window
\* creation, window sizing, theme setting, window destruction) is returned to
\* the caller as an error value and is not raised as a fatal error.
C24_PlatformErrorsAreReturned ==
    (win_op.name \in NonDrawingOps /\ win_op.os_result = "err") =>
        /\ win_op.panic = NoPanic
        /\ win_op.ret = FALSE

\* The references the bridge accounts for besides the application's: the one
\* the user-data slot holds, the one passed to CreateWindowExW as the creation
\* parameter and not yet stored by the creation notification, and the one a
\* steady-state dispatch holds while handle_message runs (a dispatch is on the
\* call stack between steps only when a panic inside it has ended the process
\* or when it waits for the keyboard lock).
\*
\* C34: in every reachable state the strong count equals the number of
\* application-held references (the creation parameter on its way to the
\* creation notification counted with them), plus 1 if the user-data slot
\* holds the object pointer, plus the number of steady-state dispatches on the
\* call stack; hence a non-null user-data slot never points to a freed object.
C34_StrongCountIsAccountedFor ==
    LET SlotReferences == IF user_data # NullPtr THEN 1 ELSE 0
        CreationParameterInFlight ==
            IF pc = "CreateWindowExW" /\ os_window = "none" THEN 1 ELSE 0
        DispatchesOnStack == IF aborted \/ blocked THEN 1 ELSE 0
    IN  /\ strong = app_refs + CreationParameterInFlight + SlotReferences + DispatchesOnStack
        /\ user_data # NullPtr => strong > 0

\* C35: a message that reaches the window procedure while the user-data slot
\* is null (the setup routine before and at the creation notification, the
\* steady-state routine after the destruction notification cleared the slot)
\* goes on to DefWindowProcW, whose value is returned; the object is not
\* touched (no panic, no reference taken or released, no use after free) and
\* neither request flag, the handle field nor the strong count changes.
C35_NullSlotForwardsUntouched ==
    (IsWndProc /\ win_op.pre.user_data = NullPtr) =>
        /\ win_op.forwarded
        /\ win_op.lresult = "DefWindowProcW"
        /\ win_op.ret = FALSE
        /\ win_op.panic = NoPanic
        /\ win_op.released = 0
        /\ ~win_op.uaf
        /\ close_request = win_op.pre.close_request
        /\ redraw_request = win_op.pre.redraw_request
        /\ hwnd = win_op.pre.hwnd
        /\ strong = win_op.pre.strong
        /\ releases = win_op.pre.released
        /\ win_op.name = "wnd_proc_thunk" => user_data = NullPtr

\* The destruction notification is delivered once more to the destroyed
\* window: the steady-state routine finds the slot cleared and forwards it.
C35_Witness ==
    /\ win_op.name = "wnd_proc_thunk"
    /\ win_op.arg = WM_NCDESTROY
    /\ win_op.pre.user_data = NullPtr
    /\ win_op.pre.hwnd = NullHwnd
    /\ os_window = "destroyed"
    /\ repeats = 1
    /\ win_op.forwarded

\* C36: the request flags are levels: the close flag is set exactly when at
\* least one close notification was handled since the last
\* clear_close_request, the redraw flag exactly when at least one paint
\* notification was handled since the last clear_redraw_request or no
\* clear_redraw_request was made since construction.  A clear call returns
\* the flag and leaves it cleared, so any number of notifications yield one
\* true; on a new window clear_redraw_request returns true without any paint
\* notification and clear_close_request returns false.
C36_FlagsAreLevels ==
    /\ close_request = (closes_pending > 0)
    /\ redraw_request = (paints_pending > 0 \/ ~redraw_cleared)
    /\ win_op.name = "clear_close_request" =>
          /\ win_op.ret = win_op.pre.close_request
          /\ win_op.ret = (win_op.closes > 0)
          /\ close_request = FALSE
    /\ win_op.name = "clear_redraw_request" =>
          /\ win_op.ret = win_op.pre.redraw_request
          /\ redraw_request = FALSE
          /\ redraw_cleared

\* Two close notifications were handled, then one clear_close_request, which
\* returned true; the initial redraw request has been cleared before.
C36_Witness ==
    /\ win_op.name = "clear_close_request"
    /\ win_op.ret = TRUE
    /\ win_op.closes = 2
    /\ closes_pending = 0
    /\ redraw_cleared
    /\ paints_pending = 0
    /\ redraw_request = FALSE

\* C37: message handling never blocks: whatever message is delivered and
\* whatever the application holds when it is delivered on the window's thread,
\* the guard returned by keyboard() included, handle_message returns.
C37_HandleMessageReturns ==
    /\ ~blocked
    /\ IsWndProc => win_op.panic # Blocked
(***************************************************************************)
(* Properties of the mappings and of the COM library handle                *)
(***************************************************************************)

\* C25: map_last_err invokes the function exactly once, on a last-error
\* value it has just set to 0; it returns Ok(result) exactly when the
\* last-error value is still 0 after the call, and otherwise Err with the
\* source hint and the error code found (as the HRESULT of that system error
\* code); an error value left over from before the call never produces Err.
C25_LastErrOnlyFromTheCall ==
    map_op.name = "map_last_err" =>
        /\ map_op.invoked = 1
        /\ map_op.found = 0
        /\ map_op.result.tag = "Ok" <=> map_op.post_error = 0
        /\ map_op.result.tag = "Ok" => map_op.result.val = map_op.function.ret
        /\ map_op.result.tag = "Err" =>
              /\ map_op.result.source_hint = map_op.source_hint
              /\ Error_code(map_op.result) = HRESULT_from_win32(map_op.post_error)
              /\ WIN32_ERROR_from_hresult(Error_code(map_op.result)) = map_op.post_error
              /\ map_op.function.sets = map_op.post_error
        /\ map_op.function.sets \in {Untouched, 0} => map_op.result.tag = "Ok"

\* A call made with a stale error on the thread, by a function that sets
\* none: Ok.
C25_Witness ==
    /\ map_op.name = "map_last_err"
    /\ map_op.pre_error = 2
    /\ map_op.function.sets = Untouched
    /\ map_op.function.ret = 0
    /\ map_op.result.tag = "Ok"
    /\ map_op.post_error = 0

\* The success criterion of a mapping, on what the function returned.
Succeeded(name, function) ==
    CASE name \in {"map_nonzero", "map_bool", "map_ptr"} -> function.ret # 0
      [] name = "map_result" -> function.err = 0
      [] OTHER -> FALSE

\* C26: map_nonzero_*, map_bool, map_ptr and map_result invoke the function
\* exactly once and return Ok exactly on their success criterion (value not
\* zero, returned as that value; BOOL true; pointer not null, returned
\* unchanged; Ok value passed through); every Err carries the source hint
\* passed in, and Error::code() is the code of the underlying platform error
\* (the thread's last-error value as an HRESULT; for map_result the error
\* the function returned).
C26_MappingsKeepValueHintAndCode ==
    map_op.name \in {"map_nonzero", "map_bool", "map_ptr", "map_result"} =>
        /\ map_op.invoked = 1
        /\ map_op.result.tag = "Ok" <=> Succeeded(map_op.name, map_op.function)
        /\ map_op.result.tag = "Ok" =>
              map_op.result.val = IF map_op.name = "map_bool" THEN Unit
                                  ELSE map_op.function.ret
        /\ map_op.result.tag = "Err" =>
              /\ map_op.result.source_hint = map_op.source_hint
              /\ Error_code(map_op.result) =
                    IF map_op.name = "map_result" THEN map_op.function.err
                    ELSE HRESULT_from_win32(map_op.post_error)

\* map_ptr given a null pointer by a function that set error code 2.
C26_Witness ==
    /\ map_op.name = "map_ptr"
    /\ map_op.function.ret = 0
    /\ map_op.function.sets = 2
    /\ map_op.result.tag = "Err"
    /\ map_op.result.source_hint = "CreateWindowExW"
    /\ WIN32_ERROR_from_hresult(Error_code(map_op.result)) = 2

\* C27 as stated: on each thread the number of CoInitializeEx calls less the
\* number of CoUninitialize calls is 1 if a handle returned by acquire is
\* alive and 0 otherwise.
C27_CallsBalanceHandles ==
    \A t \in Threads :
        com_calls[t].init - com_calls[t].uninit = IF com_handle[t].strong > 0 THEN 1 ELSE 0

\* C27 (amended): on each thread, the CoInitializeEx calls that succeeded less the
\* CoUninitialize calls are 1 while a handle returned by acquire is alive and
\* 0 otherwise (so COM is initialized while a handle is held); acquire while
\* a handle is alive returns that handle and does not call CoInitializeEx;
\* dropping the last handle calls CoUninitialize once, dropping another calls
\* nothing; an acquire with no handle alive calls CoInitializeEx once and
\* returns a new handle.
C27_ComInitializedWhileHandleHeld ==
    /\ \A t \in Threads :
          /\ com_initialized[t] = IF com_handle[t].strong > 0 THEN 1 ELSE 0
          /\ com_handle[t].strong > 0 => com_cell[t] = com_handle[t].id
    /\ (com_op.name = "acquire" /\ com_op.pre_handle.strong > 0) =>
          /\ com_op.init_calls = 0
          /\ com_op.returned = com_op.pre_handle.id
          /\ com_handle[com_op.thread].strong = com_op.pre_handle.strong + 1
    /\ (com_op.name = "acquire" /\ com_op.pre_handle.strong = 0) =>
          /\ com_op.init_calls = 1
          /\ com_op.panic = NoPanic <=> HRESULT_is_ok(com_op.hr)
          /\ com_op.panic = NoPanic =>
                /\ com_op.returned # com_op.pre_handle.id
                /\ com_handle[com_op.thread] = [id |-> com_op.returned, strong |-> 1]
          /\ com_op.panic # NoPanic => com_handle[com_op.thread] = com_op.pre_handle
    /\ com_op.name = "drop" =>
          com_op.uninit_calls = IF com_op.pre_handle.strong = 1 THEN 1 ELSE 0
    /\ com_op.name \in {"acquire", "clone"} => com_op.uninit_calls = 0
    /\ com_op.name \in {"drop", "clone"} => com_op.init_calls = 0

\* The last handle of a thread was dropped and a later acquire initialized
\* COM again, while the other thread holds a shared handle twice.
C27_Witness ==
    /\ com_op.name = "acquire"
    /\ com_op.thread = 1
    /\ com_op.pre_handle = [id |-> 1, strong |-> 0]
    /\ com_op.init_calls = 1
    /\ com_handle[1] = [id |-> 2, strong |-> 1]
    /\ com_initialized[1] = 1
    /\ com_handle[2].strong = 2
    /\ com_initialized[2] = 1

(***************************************************************************)
(* Properties of the game loop                                             *)
(***************************************************************************)

\* C38: once clear_close_request has returned true in Game::run,
\* is_shutting_down is true and stays true; neither update() nor draw() is
\* called again and no platform frame call is issued; the quit message is
\* posted then and only then; the loop stays at the statements that pump
\* messages (GetMessageW, DispatchMessageW, the close check), dispatching
\* every message it retrieves, and ends only when GetMessageW hands out the
\* quit message.
C38_ShutdownStopsFramesNotPump ==
    LET PumpStatements == {"GetMessageW", "DispatchMessageW", "clear_close_request"}
    IN
    /\ close_seen = g_game.is_shutting_down
    /\ close_seen = quit_posted
    /\ game_op.name \in {"update", "draw"} => ~game_op.pre_close_seen
    /\ game_op.pre_close_seen =>
          /\ game_op.name \in PumpStatements
          /\ game_op.frame_calls = <<>>
    /\ (close_seen /\ g_pc # "done") => g_pc \in PumpStatements
    /\ g_pc = "done" =>
          /\ game_op.name = "GetMessageW"
          /\ game_op.ret = 0
          /\ g_msg = "WM_QUIT"
          /\ close_seen
          /\ g_queue = <<>>

\* A message retrieved after the close request was seen and the quit message
\* posted has been dispatched; the frame drawn before is the only one.
C38_Witness ==
    /\ game_op.name = "DispatchMessageW"
    /\ game_op.pre_close_seen
    /\ g_game.is_shutting_down
    /\ quit_posted
    /\ ~g_game.is_render_dirty
    /\ g_pc = "clear_close_request"

\* C39: in Game::run a frame lost to recreate-required is eventually followed
\* by another begin_draw/end_draw pair that is not lost, unless the loop ends
\* ends (GetMessageW returns 0, or a panic) or shuts down first.
C39_LostFrameIsRedrawn ==
    lost_frame ~>
        \/ ~lost_frame
        \/ g_pc \in {"done", "panicked"}
        \/ g_game.is_shutting_down

====
